---- MODULE Spec2Model ----
(***************************************************************************)
(* A model of the TCPROS core of foxglove/ros1: the framing decoder        *)
(* (RosTcpMessageStream), the connection header codec, the backoff/retry   *)
(* helper, the outbound TcpConnection and the part of RosNode that         *)
(* registers subscriptions.  Every definition is translated from the       *)
(* TypeScript source.                                                      *)
(*                                                                         *)
(* The module holds several specifications over one set of variables.      *)
(* Each specification drives one component and leaves the variables of the *)
(* others at their initial values.                                         *)
(***************************************************************************)
EXTENDS Integers, Sequences, FiniteSets, TLC

VARIABLES
  \* ---- RosTcpMessageStream (also TcpConnection._transformer) ----
  _inMessage,     \* RosTcpMessageStream._inMessage
  _bytesNeeded,   \* RosTcpMessageStream._bytesNeeded
  _chunks,        \* RosTcpMessageStream._chunks: the stored Uint8Array views
  \* ---- the harness around a lone RosTcpMessageStream ----
  payloads,       \* the payloads p1..pn whose encodings make up the wire
  wire,           \* the bytes a peer sends: encode(p1)..encode(pn), then a tail
  fed,            \* how many bytes of wire addData has been given
  emitted,        \* the "message" events of the stream, in order
  threw,          \* the last addData call threw
  calls,          \* how many addData calls were made
  \* ---- the header codec round trip ----
  hdrIn,          \* the Map<string, string> given to SerializeHeader
  hdrBytes,       \* the Uint8Array SerializeHeader returned
  hdrOut,         \* the Map ParseHeader returned
  hdrPc,          \* "start", "serialized" or "parsed"
  \* ---- retryForever ----
  loops,          \* the retryForever calls made so far, one record each
  opLog,          \* per loop, the outcome of each finished invocation of fn
  \* ---- RosNode ----
  _running,       \* RosNode._running
  _url,           \* RosFollower._url is set (rosFollower.start() has completed)
  subscriptions,  \* RosNode.subscriptions: topic -> Subscription (0: none)
  subs,           \* the Subscription objects created so far
  rpcSent,        \* the XML-RPC calls sent to the master so far
  \* ---- TcpConnection (its _transformer is the stream above) ----
  retries,        \* TcpConnection.retries
  _connected,     \* TcpConnection._connected
  _shutdown,      \* TcpConnection._shutdown
  _readingHeader, \* TcpConnection._readingHeader
  _msgReader,     \* TcpConnection._msgReader is set
  sock,           \* the socket: "idle", "connecting", "open", "failing",
                  \* "closing" or "closed"
  atInfo,         \* _handleConnect calls suspended in _getTransportInfo()
  writeFailed,    \* _handleConnect calls whose writeHeader() is rejecting
  timers,         \* the pending backoff timers of _retryConnection
  connectCalls,   \* the socket.connect() calls made so far
  session,        \* the 'connect' events so far: the number of this session
  frame,          \* the frames _handleMessage has taken in this session
  inbox,          \* bytes the publisher has sent that await a 'data' event
  peerGotHeader,  \* the publisher has the request header of this session
  published,      \* the payloads the publisher has sent in this session
  events,         \* the events the connection has emitted to its listeners
  lastStep,       \* the handler that ran last
  _stats,         \* TcpConnection._stats: its bytesReceived
  \* ---- backoffTime on its own ----
  boArgs,         \* the arguments: retries, maxMs, maxJitterMs, rng() in tenths
  boOut,          \* the value backoffTime returned
  boPc,           \* "start" or "called"
  \* ---- Publication and its TcpClients (inbound connections) ----
  impl,           \* which TcpClient source is built: "TcpClient.ts", "part_001"
  detaches,       \* socket.write() detaches the buffer of the array it is given
  pub,            \* the Publication advertised under PubTopic
  clients,        \* the TcpClient objects, in the order of their creation
  writes          \* the Publication.write() calls made so far

VARIABLES
  stp,              \* the _subscribeToPublisher calls made, each with its position
  links,            \* the TcpConnections made for publishers
  publications,     \* RosNode.publications: topic -> publication number, or 0
  pubs,             \* the Publication objects, in the order of their creation
  inbound,          \* the subscriber clients handed to the node
  advs,             \* the advertise() calls made, each with its position
  _connectionIdCounter  \* RosNode._connectionIdCounter

VARIABLES
  nodeUpdates,      \* the 'publisherUpdate' and 'paramUpdate' events the node emitted
  parameters,       \* RosNode.parameters: a function from the keys it holds
  paramCalls,       \* the setParameter / subscribeParam calls made, with their position
  followerLog,      \* the follower's RPC calls handled, each with its outcome
  lastReturn,       \* what the last subscribe() or unsubscribe() call returned
  rpcReplied        \* the unregisterSubscriber calls that were answered

streamVars == <<_inMessage, _bytesNeeded, _chunks>>
harnessVars == <<payloads, wire, fed, emitted, threw, calls>>
headerVars == <<hdrIn, hdrBytes, hdrOut, hdrPc>>
retryVars == <<loops, opLog>>
nodeVars == <<_running, _url, subscriptions, subs, rpcSent>>
linkVars ==
  <<stp, links, publications, pubs, inbound, advs, _connectionIdCounter>>
updVars ==
  <<nodeUpdates, parameters, paramCalls, followerLog, lastReturn, rpcReplied>>
backoffVars == <<boArgs, boOut, boPc>>
pubVars == <<impl, detaches, pub, clients, writes>>
connVars ==
  <<retries, _connected, _shutdown, _readingHeader, _msgReader, sock, atInfo,
    writeFailed, timers, connectCalls, session, frame, inbox, peerGotHeader,
    published, events, lastStep, _stats>>

(***************************************************************************)
(* Bounds of the model.                                                    *)
(***************************************************************************)
MaxFrames == 2      \* frames on the wire of the lone decoder
MaxPayload == 2     \* bytes in one payload
MaxChunk == 5       \* bytes in one addData chunk
MaxSlack == 1       \* bytes of the chunk's ArrayBuffer that follow the chunk
MaxCalls == 4       \* addData calls on the lone decoder

\* Payload bytes, and the bytes that may follow a chunk in its ArrayBuffer.
PayloadBytes == {7}
SlackBytes == {9}

(***************************************************************************)
(* Byte sequences.                                                         *)
(***************************************************************************)
RECURSIVE SeqsUpTo(_, _)
SeqsUpTo(S, n) ==
  IF n = 0 THEN {<<>>}
  ELSE LET shorter == SeqsUpTo(S, n - 1)
       IN shorter \cup {Append(s, b) : s \in {t \in shorter : Len(t) = n - 1}, b \in S}

\* DataView.setUint32(idx, n, true): the four little-endian bytes of n.
u32le(n) ==
  <<n % 256, (n \div 256) % 256, (n \div 65536) % 256, (n \div 16777216) % 256>>

\* DataView.getUint32(idx, true) at byte offset idx (0-based) of data.  TLC's
\* integers end at 2^31 - 1: a value with the top bit set (at least 2^31, so
\* above MAX_MSG_LENGTH whatever its low bits) is read as 2^31 - 1.
getUint32(data, idx) ==
  IF data[idx + 4] >= 128 THEN 2147483647
  ELSE data[idx + 1] + 256 * data[idx + 2] + 65536 * data[idx + 3]
         + 16777216 * data[idx + 4]

\* The TCPROS frame of one payload: u32le(len) || payload.
encode(p) == u32le(Len(p)) \o p

RECURSIVE encodeAll(_)
encodeAll(ps) ==
  IF ps = <<>> THEN <<>> ELSE encode(Head(ps)) \o encodeAll(Tail(ps))

(***************************************************************************)
(* Typed-array views.  A chunk is a Uint8Array: a window (byteOffset,      *)
(* length) on an ArrayBuffer that may hold more bytes after the window.    *)
(***************************************************************************)
\* new Uint8Array(buffer, byteOffset, length)
View(buffer, byteOffset, length) ==
  SubSeq(buffer, byteOffset + 1, byteOffset + length)

\* new Uint8Array(buffer, byteOffset): runs to the end of the ArrayBuffer.
ViewToEnd(buffer, byteOffset) ==
  SubSeq(buffer, byteOffset + 1, Len(buffer))

\* The bytes a Uint8Array chunk shows.
ChunkBytes(chunk) == View(chunk.buffer, chunk.byteOffset, chunk.length)

\* A chunk showing `bytes`, in an ArrayBuffer that continues with `slack`.
MkChunk(bytes, slack) ==
  [buffer |-> bytes \o slack, byteOffset |-> 0, length |-> Len(bytes)]

RECURSIVE concatData(_)
concatData(chunks) ==
  IF chunks = <<>> THEN <<>> ELSE Head(chunks) \o concatData(Tail(chunks))

MAX_MSG_LENGTH == 1000000000

(***************************************************************************)
(* RosTcpMessageStream.addData.  d is the decoder state, chunk the         *)
(* Uint8Array, idx the loop index, out the "message" events emitted so far *)
(* by this call.  The result is the decoder state after the call, the      *)
(* events of the call and whether the call threw.                          *)
(***************************************************************************)
\* The view stored when the chunk does not complete the field being read.
StoredPartial(chunk, idx) == ViewToEnd(chunk.buffer, chunk.byteOffset + idx)

\* The view stored when the chunk completes the field being read.
StoredFinal(chunk, idx, need) == View(chunk.buffer, chunk.byteOffset + idx, need)

Decoder(inMessage, bytesNeeded, chunks, out, thrown) ==
  [inMessage |-> inMessage, bytesNeeded |-> bytesNeeded, chunks |-> chunks,
   out |-> out, threw |-> thrown]

RECURSIVE addDataLoop(_, _, _, _)
addDataLoop(d, chunk, idx, out) ==
  IF ~(idx < chunk.length)
  THEN Decoder(d.inMessage, d.bytesNeeded, d.chunks, out, FALSE)
  ELSE IF chunk.length - idx < d.bytesNeeded
  THEN Decoder(d.inMessage, d.bytesNeeded - (chunk.length - idx),
               Append(d.chunks, StoredPartial(chunk, idx)), out, FALSE)
  ELSE
    LET stored == Append(d.chunks, StoredFinal(chunk, idx, d.bytesNeeded))
        idx2 == idx + d.bytesNeeded
        payload == concatData(stored)
    IN IF d.inMessage
       THEN addDataLoop(Decoder(FALSE, 4, <<>>, <<>>, FALSE), chunk, idx2,
                        Append(out, payload))
       ELSE LET n == getUint32(payload, 0)
            IN IF n > MAX_MSG_LENGTH
               THEN Decoder(FALSE, n, <<>>, out, TRUE)
               ELSE IF n = 0
               THEN addDataLoop(Decoder(FALSE, 4, <<>>, <<>>, FALSE), chunk,
                                idx2, Append(out, <<>>))
               ELSE addDataLoop(Decoder(TRUE, n, <<>>, <<>>, FALSE), chunk,
                                idx2, out)

addData(d, chunk) == addDataLoop(d, chunk, 0, <<>>)

\* The state of the stream object as a record.
StreamState == Decoder(_inMessage, _bytesNeeded, _chunks, <<>>, FALSE)

(***************************************************************************)
(* The lone decoder: a peer's wire is fed to addData chunk by chunk.       *)
(***************************************************************************)
Payloads == SeqsUpTo(PayloadBytes, MaxPayload)

\* What follows the complete frames on the wire: nothing, a length prefix of
\* 1,000,000,001 (01 CA 9A 3B) or one of 1,000,000,000 (00 CA 9A 3B).
WireTails == {<<>>, <<1, 202, 154, 59>>, <<0, 202, 154, 59>>}

Slacks == SeqsUpTo(SlackBytes, MaxSlack)

StreamInit ==
  /\ _inMessage = FALSE
  /\ _bytesNeeded = 4
  /\ _chunks = <<>>

HarnessInit ==
  /\ payloads \in SeqsUpTo(Payloads, MaxFrames)
  /\ \E t \in WireTails : wire = encodeAll(payloads) \o t
  /\ fed = 0
  /\ emitted = <<>>
  /\ threw = FALSE
  /\ calls = 0

\* stream.addData(chunk) with the next `len` bytes of the wire, in a chunk whose
\* ArrayBuffer continues with `slack`.  After a throw the caller closes the
\* socket: nothing more is fed.
Feed(len, slack) ==
  /\ ~threw
  /\ calls < MaxCalls
  /\ fed + len <= Len(wire)
  /\ LET chunk == MkChunk(SubSeq(wire, fed + 1, fed + len), slack)
         r == addData(StreamState, chunk)
     IN /\ _inMessage' = r.inMessage
        /\ _bytesNeeded' = r.bytesNeeded
        /\ _chunks' = r.chunks
        /\ emitted' = emitted \o r.out
        /\ threw' = r.threw
  /\ fed' = fed + len
  /\ calls' = calls + 1
  /\ UNCHANGED <<payloads, wire>>

FeedChunk == \E len \in 0..MaxChunk, slack \in Slacks : Feed(len, slack)

(***************************************************************************)
(* Strings are sequences of code points; a Map<string, string> is the      *)
(* sequence of its entries in insertion order, with distinct keys.         *)
(***************************************************************************)
EQ == 61   \* "="

\* TextEncoder.encode: UTF-8, one byte below U+0080 and two below U+0800.
RECURSIVE utf8Encode(_)
utf8Encode(str) ==
  IF str = <<>> THEN <<>>
  ELSE LET c == Head(str)
       IN (IF c < 128 THEN <<c>> ELSE <<192 + (c \div 64), 128 + (c % 64)>>)
            \o utf8Encode(Tail(str))

\* TextDecoder.decode: UTF-8; a byte that starts no well-formed sequence
\* decodes to U+FFFD.
RECURSIVE utf8Decode(_)
utf8Decode(bytes) ==
  IF bytes = <<>> THEN <<>>
  ELSE LET b == Head(bytes)
       IN IF b < 128 THEN <<b>> \o utf8Decode(Tail(bytes))
          ELSE IF b >= 194 /\ b < 224 /\ Len(bytes) >= 2
                  /\ bytes[2] >= 128 /\ bytes[2] < 192
          THEN <<(b - 192) * 64 + (bytes[2] - 128)>>
                 \o utf8Decode(SubSeq(bytes, 3, Len(bytes)))
          ELSE <<65533>> \o utf8Decode(Tail(bytes))

\* String.prototype.indexOf("="): the 0-based index of the first "=", or -1.
RECURSIVE indexOfEq(_)
indexOfEq(str) ==
  IF str = <<>> THEN -1
  ELSE IF Head(str) = EQ THEN 0
  ELSE LET r == indexOfEq(Tail(str)) IN IF r < 0 THEN -1 ELSE r + 1

\* str.substr(start) and str.substr(0, n)
substrFrom(str, start) == SubSeq(str, start + 1, Len(str))
substrTo(str, n) == SubSeq(str, 1, n)

\* Map.prototype.set: a present key keeps its place and takes the new value.
MapSet(m, key, value) ==
  IF \E i \in 1..Len(m) : m[i].key = key
  THEN [i \in 1..Len(m) |->
          IF m[i].key = key THEN [key |-> key, value |-> value] ELSE m[i]]
  ELSE Append(m, [key |-> key, value |-> value])

\* TcpConnection.SerializeHeader: u32le(len) || utf8("key=value") per entry.
RECURSIVE SerializeHeader(_)
SerializeHeader(header) ==
  IF header = <<>> THEN <<>>
  ELSE LET strData == utf8Encode(Head(header).key \o <<EQ>> \o Head(header).value)
       IN u32le(Len(strData)) \o strData \o SerializeHeader(Tail(header))

\* The key and value ParseHeader takes from one decoded field.
ParseFieldOffByOne(str) ==
  LET found == indexOfEq(str)
      equalIdx == IF found < 0 THEN Len(str) ELSE found
  IN [key |-> substrTo(str, equalIdx), value |-> substrFrom(str, equalIdx)]

ParseField(str) ==
  LET found == indexOfEq(str)
      equalIdx == IF found < 0 THEN Len(str) ELSE found
  IN [key |-> substrTo(str, equalIdx), value |-> substrFrom(str, equalIdx + 1)]

Min(a, b) == IF a < b THEN a ELSE b

\* TcpConnection.ParseHeader: the loop from byte offset idx with the Map so far.
RECURSIVE ParseHeaderLoop(_, _, _)
ParseHeaderLoop(data, idx, result) ==
  IF ~(idx + 4 < Len(data)) THEN result
  ELSE LET len == Min(getUint32(data, idx), Len(data) - idx - 4)
           str == utf8Decode(View(data, idx + 4, len))
           f == ParseField(str)
       IN ParseHeaderLoop(data, idx + 4 + len, MapSet(result, f.key, f.value))

ParseHeader(data) == ParseHeaderLoop(data, 0, <<>>)

(***************************************************************************)
(* The codec round trip: a header is serialized, then parsed.              *)
(***************************************************************************)
MaxEntries == 2     \* entries in a header
MaxValueLen == 2    \* characters in a value

\* The keys "", "a" and "\u00e9a"; values of "a" and "=".
HeaderKeys == {<<>>, <<97>>, <<233, 97>>}
ValueChars == {97, EQ}

HeaderValues == SeqsUpTo(ValueChars, MaxValueLen)
HeaderEntries == [key : HeaderKeys, value : HeaderValues]

\* The Maps of at most MaxEntries entries: distinct keys, any insertion order.
HeaderMaps ==
  {m \in SeqsUpTo(HeaderEntries, MaxEntries) :
     \A i, j \in 1..Len(m) : i # j => m[i].key # m[j].key}

HeaderInit ==
  /\ hdrIn \in HeaderMaps
  /\ hdrBytes = <<>>
  /\ hdrOut = <<>>
  /\ hdrPc = "start"

HeaderIdle ==
  /\ hdrIn = <<>>
  /\ hdrBytes = <<>>
  /\ hdrOut = <<>>
  /\ hdrPc = "idle"

DoSerializeHeader ==
  /\ hdrPc = "start"
  /\ hdrBytes' = SerializeHeader(hdrIn)
  /\ hdrPc' = "serialized"
  /\ UNCHANGED <<hdrIn, hdrOut>>

DoParseHeader ==
  /\ hdrPc = "serialized"
  /\ hdrOut' = ParseHeader(hdrBytes)
  /\ hdrPc' = "parsed"
  /\ UNCHANGED <<hdrIn, hdrBytes>>

(***************************************************************************)
(* backoff.ts: backoffTime, backoff and retryForever.                      *)
(***************************************************************************)
DEFAULT_MAX_MS == 10000
DEFAULT_MAX_JITTER_MS == 1000

\* Math.pow(2, n) for n >= 0.  From 2^30 on the value is held at 2^30: the
\* double it stands for only grows, and every maxMs used here is far smaller.
RECURSIVE Pow2(_)
Pow2(n) == IF n = 0 THEN 1 ELSE IF n > 30 THEN Pow2(30) ELSE 2 * Pow2(n - 1)

\* backoffTime(retries, maxMs, maxJitterMs, rng), with rng() = rngTenths / 10.
backoffTimeUncapped(n, maxMs, maxJitterMs, rngTenths) ==
  LET randomMs == (rngTenths * maxJitterMs) \div 10
  IN Pow2(n) + randomMs

backoffTime(n, maxMs, maxJitterMs, rngTenths) ==
  LET randomMs == (rngTenths * maxJitterMs) \div 10
  IN Min(Pow2(n) + randomMs, maxMs)

\* The values rng() takes in the model: 0, 0.5 and 0.9.
RngTenths == {0, 5, 9}

(***************************************************************************)
(* backoffTime on its own: it is called for retries = 0, 1, 2, ... with    *)
(* the other arguments fixed.                                              *)
(***************************************************************************)
MaxBackoffRetries == 16     \* the largest `retries` backoffTime is called with

\* maxMs and maxJitterMs: the defaults, those of the unit test, and others.
BackoffParams ==
  {<<DEFAULT_MAX_MS, DEFAULT_MAX_JITTER_MS>>, <<60, 100>>, <<0, 1000>>,
   <<5000, 0>>}

BackoffInit ==
  /\ boArgs \in {[retries |-> 0, maxMs |-> pr[1], maxJitterMs |-> pr[2],
                  rng |-> r] : pr \in BackoffParams, r \in 0..9}
  /\ boOut = 0
  /\ boPc = "start"

BackoffIdle ==
  /\ boArgs = [retries |-> 0, maxMs |-> 0, maxJitterMs |-> 0, rng |-> 0]
  /\ boOut = 0
  /\ boPc = "idle"

\* backoffTime(retries, maxMs, maxJitterMs, rng) is called.
CallBackoffTime ==
  /\ boPc = "start"
  /\ boOut' = backoffTime(boArgs.retries, boArgs.maxMs, boArgs.maxJitterMs,
                          boArgs.rng)
  /\ boPc' = "called"
  /\ UNCHANGED boArgs

\* It is called again with one more retry and the same rng().
NextRetries ==
  /\ boPc = "called"
  /\ boArgs.retries < MaxBackoffRetries
  /\ boArgs' = [boArgs EXCEPT !.retries = @ + 1]
  /\ boOut' = backoffTime(boArgs.retries + 1, boArgs.maxMs,
                          boArgs.maxJitterMs, boArgs.rng)
  /\ UNCHANGED boPc

\* A retryForever call: where it is, its `retries`, how often it has invoked
\* fn, the backoff(retries) sleeps it has started and what it resolved with.
NewLoop ==
  [pc |-> "calling", retries |-> 0, calls |-> 1, sleeps |-> <<>>,
   result |-> <<>>]

\* `return await fn()`: the loop invokes fn (again).
RetryInvoke(l) == [l EXCEPT !.pc = "calling", !.calls = l.calls + 1]

\* fn resolved with v: retryForever resolves with v.
RetryReturn(l, v) == [l EXCEPT !.pc = "done", !.result = v]

\* fn threw: `await backoff(++retries)` arms a timer of backoffTime(retries).
RetryCatchPostIncrement(l, rngTenths) ==
  [l EXCEPT !.pc = "sleeping", !.retries = l.retries + 1,
            !.sleeps = Append(l.sleeps,
               [retries |-> l.retries,
                ms |-> backoffTime(l.retries, DEFAULT_MAX_MS,
                                   DEFAULT_MAX_JITTER_MS, rngTenths)])]

RetryCatch(l, rngTenths) ==
  [l EXCEPT !.pc = "sleeping", !.retries = l.retries + 1,
            !.sleeps = Append(l.sleeps,
               [retries |-> l.retries + 1,
                ms |-> backoffTime(l.retries + 1, DEFAULT_MAX_MS,
                                   DEFAULT_MAX_JITTER_MS, rngTenths)])]

(***************************************************************************)
(* retryForever around an arbitrary operation that throws or returns.      *)
(***************************************************************************)
MaxRetries == 3     \* failed attempts of one retryForever call

\* What the operation may return.
OpValues == {<<"v1">>, <<"v2">>}

RetryIdle ==
  /\ loops = <<>>
  /\ opLog = <<>>

\* retryForever(fn) is called: fn is invoked at once.
CallRetryForever ==
  /\ loops = <<>>
  /\ loops' = <<NewLoop>>
  /\ opLog' = <<<<>>>>

\* The pending invocation of fn resolves with v.
OpReturns(v) ==
  /\ Len(loops) = 1 /\ loops[1].pc = "calling"
  /\ loops' = [loops EXCEPT ![1] = RetryReturn(@, v)]
  /\ opLog' = [opLog EXCEPT ![1] = Append(@, [threw |-> FALSE, value |-> v])]

\* The pending invocation of fn throws (or rejects).
OpThrows(rngTenths) ==
  /\ Len(loops) = 1 /\ loops[1].pc = "calling"
  /\ loops[1].retries < MaxRetries
  /\ loops' = [loops EXCEPT ![1] = RetryCatch(@, rngTenths)]
  /\ opLog' = [opLog EXCEPT ![1] = Append(@, [threw |-> TRUE, value |-> <<>>])]

\* The backoff timer fires: the loop goes round and invokes fn again.
RetryTimerFires ==
  /\ Len(loops) = 1 /\ loops[1].pc = "sleeping"
  /\ loops' = [loops EXCEPT ![1] = RetryInvoke(@)]
  /\ UNCHANGED opLog

(***************************************************************************)
(* RosNode: subscribe, unsubscribe, shutdown and the registration loop of  *)
(* _registerSubscriberAndConnect.  Subscription objects are numbered in    *)
(* the order of their creation; loops[i] is the retryForever call made for *)
(* subs[i].                                                                *)
(***************************************************************************)
MaxSubs == 2        \* Subscription objects created in one run

Topics == {"/a", "/b"}

\* The publisher lists the master may answer registerSubscriber with.
PublisherLists == {<<>>, <<"http://pub:1/">>}

\* The jitter drawn by the node's backoff timers.
NodeRngTenths == {5}

MaxUpdates == 2     \* publisherUpdate and paramUpdate pushes in one run
MaxStp == 3         \* _subscribeToPublisher calls in one run
MaxAdvertise == 3   \* advertise() calls in one run of the advertise lifecycle
MaxFollowerCalls == 2  \* XML-RPC calls to the follower in one run
MaxParamCalls == 3  \* setParameter and subscribeParam calls in one run
MaxProbes == 1      \* calls of the follower's methods in a run that tries each
MaxParamNames == 3   \* names in one answer to getParamNames
MaxAllParams == 1    \* subscribeAllParams() calls in one run
MaxInbound == 1     \* subscriber clients handed to the node in one run
MaxMembers == 2     \* the same, in the runs about the subscribers of a publication
MaxNodePublish == 1 \* publish() calls that write to one client
MaxPubs == 1        \* advertise() calls in one run
MaxMessages == 1    \* messages a publisher connection delivers
MaxLinkSockets == 2 \* sockets one publisher connection opens

\* RosNode.name
NodeName == <<47, 110>>                                        \* "/n"

\* An option that was left out.
NoValue == "undefined"

\* XmlRpcValue: a value with its JavaScript kind, the character codes of a
\* string (the number itself for a number) and the members of an array or
\* of an object.
XValue(t, s, items) == [t |-> t, s |-> s, items |-> items]
XString(s) == XValue("string", s, <<>>)
XNumber(n) == XValue("number", <<n>>, <<>>)
XArray(items) == XValue("array", <<>>, items)
XObject(items) == XValue("object", <<>>, items)
XUndefined == XValue("undefined", <<>>, <<>>)

\* typeof v
typeof(v) == IF v.t \in {"array", "object", "null"} THEN "object" ELSE v.t

\* A test that takes a string for an array of its characters.
isArrayLike(v) == v.t \in {"array", "string"}

\* Array.isArray(v)
isArray(v) == v.t = "array"

NoOptions == [dataType |-> NoValue, md5sum |-> NoValue, tcpNoDelay |-> NoValue]

UpdInit ==
  /\ nodeUpdates = <<>>
  /\ parameters = <<>>
  /\ paramCalls = <<>>
  /\ followerLog = <<>>
  /\ lastReturn = [call |-> "none", topic |-> "", options |-> NoOptions,
                   sub |-> 0, ok |-> FALSE]
  /\ rpcReplied = {}

LinkInit ==
  /\ stp = <<>>
  /\ links = <<>>
  /\ publications = [t \in Topics |-> 0]
  /\ pubs = <<>>
  /\ inbound = <<>>
  /\ advs = <<>>
  /\ _connectionIdCounter = 0

NodeInit ==
  /\ _running = TRUE
  /\ _url = FALSE
  /\ subscriptions = [t \in Topics |-> 0]
  /\ subs = <<>>
  /\ rpcSent = {}
  /\ loops = <<>>
  /\ opLog = <<>>
  /\ LinkInit
  /\ UpdInit

\* The node after start().
NodeStarted ==
  /\ _running = TRUE
  /\ _url = TRUE
  /\ subscriptions = [t \in Topics |-> 0]
  /\ subs = <<>>
  /\ rpcSent = {}
  /\ loops = <<>>
  /\ opLog = <<>>
  /\ LinkInit
  /\ UpdInit

LinkTopics == {"/a"}

NodeIdle ==
  /\ _running = FALSE
  /\ _url = FALSE
  /\ subscriptions = [t \in Topics |-> 0]
  /\ subs = <<>>
  /\ rpcSent = {}
  /\ LinkInit
  /\ UpdInit

isSubscribedTo(topic) == _running /\ subscriptions[topic] # 0

isAdvertising(topic) == _running /\ publications[topic] # 0

\* _callerApi() throws unless the follower's XML-RPC server has a URL.
callerApiThrows == ~_url

Rpc(method, topic, sub, inv) ==
  [method |-> method, topic |-> topic, sub |-> sub, inv |-> inv]

\* RosNode.start(): rosFollower.start() resolves.
Start ==
  /\ ~_url
  /\ _url' = TRUE
  /\ UNCHANGED <<_running, subscriptions, subs, rpcSent, loops, opLog,
                 linkVars>>

\* _registerSubscriber(subscription) up to its first suspension, called by
\* invocation l.calls of the loop l of subscription i: the loop, the outcome
\* logged for the invocation (<<>>: still pending) and the RPCs sent.
registerSubscriberStart(i, l, topic, running, rng) ==
  IF ~running
    THEN [loop |-> RetryReturn(l, <<>>),
          log |-> <<[threw |-> FALSE, value |-> <<>>]>>, rpc |-> {}]
  ELSE IF callerApiThrows
    THEN [loop |-> RetryCatch(l, rng),
          log |-> <<[threw |-> TRUE, value |-> <<>>]>>, rpc |-> {}]
  ELSE [loop |-> l, log |-> <<>>,
        rpc |-> {Rpc("registerSubscriber", topic, i, l.calls)}]

\* One invocation of the function that _registerSubscriberAndConnect hands to
\* retryForever.  `running` and `table` are _running and the subscription
\* table at the time of the invocation.
RegisterAttemptNoCheck(i, l, topic, running, table, rng) ==
  registerSubscriberStart(i, l, topic, running, rng)

RegisterAttempt(i, l, topic, running, table, rng) ==
  IF ~(running /\ table[topic] # 0)
    THEN [loop |-> RetryReturn(l, <<>>),
          log |-> <<[threw |-> FALSE, value |-> <<>>]>>, rpc |-> {}]
  ELSE registerSubscriberStart(i, l, topic, running, rng)

\* The options of subscribe() other than the topic; md5sum and tcpNoDelay
\* may be left out.
SubscribeOptions ==
  {[dataType |-> "std_msgs/Bool", md5sum |-> NoValue, tcpNoDelay |-> NoValue],
   [dataType |-> "std_msgs/Int8", md5sum |-> "27ffa0c9", tcpNoDelay |-> "true"]}

DefaultOptions ==
  [dataType |-> "std_msgs/Bool", md5sum |-> NoValue, tcpNoDelay |-> NoValue]

\* new Subscription({name, md5sum, dataType, tcpNoDelay})
NewSubscription(topic, options) ==
  [name |-> topic, closed |-> FALSE, dataType |-> options.dataType,
   md5sum |-> IF options.md5sum = NoValue THEN "*" ELSE options.md5sum,
   tcpNoDelay |-> IF options.tcpNoDelay = NoValue THEN "false"
                  ELSE options.tcpNoDelay]

\* A lookup of the subscription table by topic and data type.
subscriptionsGetTyped(table, created, topic, options) ==
  IF table[topic] # 0 /\ created[table[topic]].dataType = options.dataType
    THEN table[topic] ELSE 0

\* this.subscriptions.get(topic): the Subscription of the topic, 0 for
\* undefined.
subscriptionsGet(table, created, topic, options) == table[topic]

\* subscribe(options): reuses the subscription of the topic, or creates one
\* and starts its registration.
SubscribeWith(topic, options, rng) ==
  IF subscriptionsGet(subscriptions, subs, topic, options) # 0
    THEN UNCHANGED <<nodeVars, retryVars, linkVars>>
    ELSE
      /\ Len(subs) < MaxSubs
      /\ LET i == Len(subs) + 1
             table == [subscriptions EXCEPT ![topic] = i]
             r == RegisterAttempt(i, NewLoop, topic, _running, table, rng)
         IN /\ r.loop.retries <= MaxRetries
            /\ subs' = Append(subs, NewSubscription(topic, options))
            /\ subscriptions' = table
            /\ loops' = Append(loops, r.loop)
            /\ opLog' = Append(opLog, r.log)
            /\ rpcSent' = rpcSent \cup r.rpc
      /\ UNCHANGED <<_running, _url, linkVars>>

Subscribe(topic, rng) == SubscribeWith(topic, DefaultOptions, rng)

\* subscribe(options) and the Subscription it returns.
SubscribeReturns(topic, options, rng) ==
  /\ SubscribeWith(topic, options, rng)
  /\ lastReturn' = [call |-> "subscribe", topic |-> topic,
                    options |-> options, sub |-> subscriptions'[topic],
                    ok |-> FALSE]
  /\ UNCHANGED <<nodeUpdates, parameters, paramCalls, followerLog, rpcReplied>>

\* _unregisterSubscriber(topic) up to its first suspension: the RPCs it sends.
UnregisterRpc(topic, i) ==
  IF callerApiThrows THEN {} ELSE {Rpc("unregisterSubscriber", topic, i, 0)}

\* Subscription.close() of the Subscription objects in `closing`: every
\* connection they hold is closed and let go.
subscriptionClose(ls, closing) ==
  [c \in 1..Len(ls) |->
     IF ls[c].held /\ ls[c].sub \in closing
       THEN [ls[c] EXCEPT !.held = FALSE, !._shutdown = TRUE]
       ELSE ls[c]]

\* Publication.close() of the Publication objects in `closing`: every
\* client they hold is closed and let go.
publicationClose(cs, closing) ==
  [c \in 1..Len(cs) |->
     IF cs[c].held /\ cs[c].pub \in closing
       THEN [cs[c] EXCEPT !.held = FALSE, !.sock = "closing"]
       ELSE cs[c]]

\* The suspended _subscribeToPublisher calls whose Subscription is among
\* `closing` are noted as torn down while suspended.
noteTornDown(cs, closing) ==
  [k \in 1..Len(cs) |->
     IF cs[k].sub \in closing
          /\ cs[k].pc \in {"requestTopic", "socketCreate"}
       THEN [cs[k] EXCEPT !.tornDown = TRUE]
       ELSE cs[k]]

\* unsubscribe(topic)
Unsubscribe(topic) ==
  IF subscriptions[topic] = 0
    THEN UNCHANGED <<nodeVars, retryVars, linkVars>>
    ELSE
      /\ rpcSent' = rpcSent \cup UnregisterRpc(topic, subscriptions[topic])
      /\ subs' = [subs EXCEPT ![subscriptions[topic]].closed = TRUE]
      /\ links' = subscriptionClose(links, {subscriptions[topic]})
      /\ stp' = noteTornDown(stp, {subscriptions[topic]})
      /\ subscriptions' = [subscriptions EXCEPT ![topic] = 0]
      /\ UNCHANGED <<_running, _url, retryVars, publications, pubs, inbound,
                     advs,
                 _connectionIdCounter>>

\* unsubscribe(topic) and the boolean it returns.
UnsubscribeReturns(topic) ==
  /\ Unsubscribe(topic)
  /\ lastReturn' = [call |-> "unsubscribe", topic |-> topic,
                    options |-> NoOptions, sub |-> subscriptions[topic],
                    ok |-> subscriptions[topic] # 0]
  /\ UNCHANGED <<nodeUpdates, parameters, paramCalls, followerLog, rpcReplied>>

\* The answer to an unregisterSubscriber call, or its failure, reaches
\* _unregisterSubscriber: a failure is logged and emitted as 'error' by the
\* node, and nothing else is done with either outcome.
UnregisterSubscriberReply(r, ok) ==
  /\ r \in rpcSent /\ r.method = "unregisterSubscriber"
  /\ \A x \in rpcReplied : x.rpc # r
  /\ rpcReplied' = rpcReplied \cup {[rpc |-> r, ok |-> ok]}
  /\ UNCHANGED <<nodeVars, retryVars, linkVars, nodeUpdates, parameters,
                 paramCalls, followerLog, lastReturn>>

\* _unregisterPublisher(topic) up to its first suspension: the RPCs it sends.
UnregisterPublisherRpc(topic, i) ==
  IF callerApiThrows THEN {} ELSE {Rpc("unregisterPublisher", topic, i, 0)}

\* shutdown(): unsubscribes every topic, unadvertises every topic and clears
\* the tables.
Shutdown ==
  /\ _running' = FALSE
  /\ rpcSent' = rpcSent
       \cup UNION {UnregisterRpc(t, subscriptions[t]) :
                     t \in {u \in Topics : subscriptions[u] # 0}}
       \cup UNION {UnregisterPublisherRpc(t, publications[t]) :
                     t \in {u \in Topics : publications[u] # 0}}
  /\ subs' = [i \in 1..Len(subs) |->
                IF subscriptions[subs[i].name] = i
                  THEN [subs[i] EXCEPT !.closed = TRUE] ELSE subs[i]]
  /\ links' = subscriptionClose(links,
                 {subscriptions[t] : t \in Topics} \ {0})
  /\ inbound' = publicationClose(inbound,
                   {publications[t] : t \in Topics} \ {0})
  /\ stp' = noteTornDown(stp, {subscriptions[t] : t \in Topics} \ {0})
  /\ subscriptions' = [t \in Topics |-> 0]
  /\ publications' = [t \in Topics |-> 0]
  /\ UNCHANGED <<_url, retryVars, pubs, advs,
                 _connectionIdCounter>>

\* Whether the registerSubscriber call of the loop's current invocation is
\* awaiting its reply.
RpcPending(i) ==
  /\ loops[i].pc = "calling"
  /\ Len(opLog[i]) < loops[i].calls

\* A counter that hands out the same id again and again.
newConnectionIdStuck == [id |-> 0, counter |-> _connectionIdCounter + 1]

\* _newConnectionId(): return this._connectionIdCounter++
newConnectionId ==
  [id |-> _connectionIdCounter, counter |-> _connectionIdCounter + 1]

\* _subscribeToPublisher(pubUrl, subscription) up to its first suspension,
\* for each of `publishers`: the calls that are awaiting requestTopic.
subscribeToPublisherStart(i, publishers) ==
  IF isSubscribedTo(subs[i].name)
    THEN [k \in 1..Len(publishers) |->
            [sub |-> i, pubUrl |-> publishers[k], pc |-> "requestTopic",
             tornDown |-> FALSE, seen |-> Len(nodeUpdates)]]
    ELSE <<>>

\* The master answers registerSubscriber with status OK and a list:
\* retryForever returns it and _registerSubscriberAndConnect calls
\* _subscribeToPublisher for each publisher.
RegisterReplyOk(i, publishers) ==
  /\ i \in 1..Len(loops) /\ RpcPending(i)
  /\ loops' = [loops EXCEPT ![i] = RetryReturn(@, publishers)]
  /\ opLog' = [opLog EXCEPT
                 ![i] = Append(@, [threw |-> FALSE, value |-> publishers])]
  /\ stp' = stp \o subscribeToPublisherStart(i, publishers)
  /\ UNCHANGED <<nodeVars, links, publications, pubs, inbound, advs,
                 _connectionIdCounter>>

\* The call fails: transport error, status other than OK, or no list.
RegisterReplyFail(i, rng) ==
  /\ i \in 1..Len(loops) /\ RpcPending(i)
  /\ loops[i].retries < MaxRetries
  /\ loops' = [loops EXCEPT ![i] = RetryCatch(@, rng)]
  /\ opLog' = [opLog EXCEPT ![i] = Append(@, [threw |-> TRUE, value |-> <<>>])]
  /\ UNCHANGED <<nodeVars, linkVars>>

\* The backoff timer of loop i fires: retryForever invokes the function again.
RegisterTimerFires(i, rng) ==
  /\ i \in 1..Len(loops) /\ loops[i].pc = "sleeping"
  /\ LET r == RegisterAttempt(i, RetryInvoke(loops[i]), subs[i].name,
                              _running, subscriptions, rng)
     IN /\ r.loop.retries <= MaxRetries
        /\ loops' = [loops EXCEPT ![i] = r.loop]
        /\ opLog' = [opLog EXCEPT ![i] = @ \o r.log]
        /\ rpcSent' = rpcSent \cup r.rpc
  /\ UNCHANGED <<_running, _url, subscriptions, subs, linkVars>>

\* Whether a suspended _subscribeToPublisher call goes on: the test it
\* makes when it resumes.
stillSubscribed(call) == isSubscribedTo(subs[call.sub].name)

\* requestTopic of call k answers: the call gives up if the topic is not
\* subscribed, else asks for a socket.  A failed requestTopic is caught and
\* the publisher is dropped.
RequestTopicReply(k, ok) ==
  /\ k \in 1..Len(stp) /\ stp[k].pc = "requestTopic"
  /\ stp' = [stp EXCEPT ![k].pc =
               IF ~ok THEN "threw"
               ELSE IF ~stillSubscribed(stp[k]) THEN "gaveUp"
               ELSE "socketCreate"]
  /\ UNCHANGED <<nodeVars, retryVars, links, publications, pubs, inbound,
                 advs,
                 _connectionIdCounter>>

\* The socket of call k is made: a TcpConnection is constructed around it;
\* if the topic is not subscribed the socket is closed and the call gives
\* up, else the Subscription the call was made for holds the connection
\* and connect() is called.
SocketCreated(k, ok) ==
  /\ k \in 1..Len(stp) /\ stp[k].pc = "socketCreate"
  /\ IF ~ok
       THEN /\ stp' = [stp EXCEPT ![k].pc = "threw"]
            /\ UNCHANGED <<links, _connectionIdCounter>>
       ELSE IF ~stillSubscribed(stp[k])
         THEN /\ stp' = [stp EXCEPT ![k].pc = "gaveUp"]
              /\ UNCHANGED <<links, _connectionIdCounter>>
         ELSE /\ stp' = [stp EXCEPT ![k].pc = "connected"]
              /\ _connectionIdCounter' = newConnectionId.counter
              /\ links' = Append(links,
                   [sub |-> stp[k].sub, pubUrl |-> stp[k].pubUrl,
                    held |-> TRUE, _shutdown |-> FALSE,
                    sockets |-> 1, messages |-> 0,
                    connectionId |-> newConnectionId.id])
  /\ UNCHANGED <<nodeVars, retryVars, publications, pubs, inbound, advs>>

\* A connection that was not closed delivers a message: the Subscription
\* that holds it emits 'message'.
LinkMessage(c) ==
  /\ c \in 1..Len(links)
  /\ ~links[c]._shutdown
  /\ links[c].messages < MaxMessages
  /\ links' = [links EXCEPT ![c].messages = @ + 1]
  /\ UNCHANGED <<nodeVars, retryVars, stp, publications, pubs, inbound, advs,
                 _connectionIdCounter>>

\* The socket of a connection has closed and its retry timer fires:
\* connect() opens another socket unless the connection was closed.
LinkReconnects(c) ==
  /\ c \in 1..Len(links)
  /\ ~links[c]._shutdown
  /\ links[c].sockets < MaxLinkSockets
  /\ links' = [links EXCEPT ![c].sockets = @ + 1]
  /\ UNCHANGED <<nodeVars, retryVars, stp, publications, pubs, inbound, advs,
                 _connectionIdCounter>>

\* difference(a, b): the distinct elements of a that are not in b, in the
\* order of their first occurrence in a.
RECURSIVE difference(_, _)
difference(a, b) ==
  IF a = <<>> THEN <<>>
  ELSE LET rest == difference(SubSeq(a, 1, Len(a) - 1), b)
           x == a[Len(a)]
       IN IF (\E k \in 1..Len(b) : b[k] = x)
               \/ (\E k \in 1..Len(rest) : rest[k] = x)
            THEN rest ELSE Append(rest, x)

\* sub.publishers(): the connection ids the Subscription object i holds, in
\* the order of their insertion.
publishersOf(ls, i) ==
  SelectSeq([c \in 1..Len(ls) |-> c], LAMBDA c : ls[c].held /\ ls[c].sub = i)

\* The inner loop of _handlePublisherUpdate for one removed URL:
\* removePublisher() of the first connection held for it, then break.
removeFirstOf(ls, i, removePub) ==
  LET ids == SelectSeq(publishersOf(ls, i),
                       LAMBDA c : ls[c].pubUrl = removePub)
  IN IF ids = <<>> THEN ls
     ELSE [ls EXCEPT ![Head(ids)].held = FALSE,
                     ![Head(ids)]._shutdown = TRUE]

RECURSIVE removePublishers(_, _, _)
removePublishers(ls, i, removed) ==
  IF removed = <<>> THEN ls
  ELSE removePublishers(removeFirstOf(ls, i, Head(removed)), i, Tail(removed))

\* _handlePublisherUpdate(topic, publishers, callerId)
PublisherUpdate(topic, publishers) ==
  /\ Len(nodeUpdates) < MaxUpdates
  /\ IF subscriptions[topic] = 0
       THEN UNCHANGED <<stp, links, nodeUpdates>>
       ELSE LET i == subscriptions[topic]
                held == publishersOf(links, i)
                prevPublishers == [k \in 1..Len(held) |-> links[held[k]].pubUrl]
                removed == difference(prevPublishers, publishers)
                added == difference(publishers, prevPublishers)
            IN /\ Len(stp) + Len(added) <= MaxStp
               /\ links' = removePublishers(links, i, removed)
               /\ stp' = stp \o
                    [k \in 1..Len(subscribeToPublisherStart(i, added)) |->
                       [subscribeToPublisherStart(i, added)[k]
                          EXCEPT !.seen = Len(nodeUpdates) + 1]]
               /\ nodeUpdates' = Append(nodeUpdates,
                    [event |-> "publisherUpdate", topic |-> topic,
                     publishers |-> publishers,
                     prevPublishers |-> prevPublishers])
  /\ UNCHANGED <<nodeVars, retryVars, publications, pubs, inbound, advs,
                 _connectionIdCounter,
                 parameters, paramCalls, lastReturn, rpcReplied>>

\* advertise({topic}) up to its first suspension, on tcpServerAddress().
Advertise(topic, limit) ==
  /\ Len(advs) < limit
  /\ advs' = Append(advs, [topic |-> topic, pc |-> "address", result |-> 0])
  /\ UNCHANGED <<nodeVars, retryVars, stp, links, publications, pubs,
                 inbound, _connectionIdCounter>>

\* A lookup that finds no Publication, whatever the table holds.
publicationsGetNothing(table, topic) == 0

\* this.publications.get(topic): the Publication of the topic, 0 for
\* undefined.
publicationsGet(table, topic) == table[topic]

\* tcpServerAddress() resolves: advertise returns the publication of the
\* topic, or creates one and calls _registerPublisher.
AddressResolves(a) ==
  /\ a \in 1..Len(advs) /\ advs[a].pc = "address"
  /\ IF publicationsGet(publications, advs[a].topic) # 0
       THEN /\ advs' = [advs EXCEPT ![a].pc = "returned",
                          ![a].result = publicationsGet(publications, advs[a].topic)]
            /\ UNCHANGED <<publications, pubs, rpcSent>>
       ELSE /\ pubs' = Append(pubs, [name |-> advs[a].topic])
            /\ publications' =
                 [publications EXCEPT ![advs[a].topic] = Len(pubs) + 1]
            /\ IF ~_running
                 THEN /\ advs' = [advs EXCEPT ![a].pc = "returned",
                                               ![a].result = Len(pubs) + 1]
                      /\ UNCHANGED rpcSent
                 ELSE IF callerApiThrows
                   THEN /\ advs' = [advs EXCEPT ![a].pc = "threw"]
                        /\ UNCHANGED rpcSent
                 ELSE /\ advs' = [advs EXCEPT ![a].pc = "registering",
                                               ![a].result = Len(pubs) + 1]
                      /\ rpcSent' = rpcSent \cup
                           {Rpc("registerPublisher", advs[a].topic,
                                Len(pubs) + 1, a)}
  /\ UNCHANGED <<_running, _url, subscriptions, subs, retryVars, stp, links,
                 inbound, _connectionIdCounter>>

\* A failed registration that takes the Publication out of the table again.
RegisterPublisherReplyRemoves(a, ok) ==
  /\ a \in 1..Len(advs) /\ advs[a].pc = "registering"
  /\ advs' = [advs EXCEPT ![a].pc = IF ok THEN "returned" ELSE "rejected"]
  /\ publications' =
       IF ok THEN publications
       ELSE [t \in Topics |->
               IF publications[t] = advs[a].result THEN 0 ELSE publications[t]]
  /\ UNCHANGED <<nodeVars, retryVars, stp, links, pubs, inbound,
                 _connectionIdCounter>>

\* The reply of the master to registerPublisher, or the failure of the
\* call, reaches _registerPublisher: advertise returns the Publication it
\* made, or rejects with the error.  A failure is a status other than OK, a
\* reply without a list of subscribers or a transport error.
RegisterPublisherReply(a, ok) ==
  /\ a \in 1..Len(advs) /\ advs[a].pc = "registering"
  /\ advs' = [advs EXCEPT ![a].pc = IF ok THEN "returned" ELSE "rejected"]
  /\ UNCHANGED <<nodeVars, retryVars, stp, links, publications, pubs,
                 inbound, _connectionIdCounter>>

(***************************************************************************)
(* The parameter cache of the node and the XML-RPC methods of its follower *)
(* server.  Strings are sequences of character codes.                      *)
(***************************************************************************)
\* this.parameters.get(key): undefined for a key the map does not hold.
parametersGet(m, key) == IF key \in DOMAIN m THEN m[key] ELSE XUndefined

\* this.parameters.set(key, value)
parametersSet(m, key, value) ==
  [k \in DOMAIN m \cup {key} |-> IF k = key THEN value ELSE m[k]]

\* _handleParamUpdate(key, value, callerId)
handleParamUpdate(key, value, callerId) ==
  /\ Len(nodeUpdates) < MaxUpdates
  /\ parameters' = parametersSet(parameters, key, value)
  /\ nodeUpdates' = Append(nodeUpdates,
       [event |-> "paramUpdate", key |-> key, value |-> value,
        prevValue |-> parametersGet(parameters, key), callerId |-> callerId])

\* CheckArguments(args, expected): whether it returns an Error.
CheckArguments(args, expected) ==
  \/ Len(args) # Len(expected)
  \/ \E i \in 1..Len(args) :
       expected[i] # "*" /\ typeof(args[i]) # expected[i]

sSlash == 47                                                   \* "/"

\* A normalization that strips every trailing "/".
RECURSIVE normalizedKeyAll(_)
normalizedKeyAll(paramKey) ==
  IF Len(paramKey) > 0 /\ paramKey[Len(paramKey)] = sSlash
    THEN normalizedKeyAll(SubSeq(paramKey, 1, Len(paramKey) - 1))
    ELSE paramKey

\* paramKey.endsWith("/") ? paramKey.slice(0, -1) : paramKey
normalizedKey(paramKey) ==
  IF Len(paramKey) > 0 /\ paramKey[Len(paramKey)] = sSlash
    THEN SubSeq(paramKey, 1, Len(paramKey) - 1)
    ELSE paramKey

\* What a handler finds around a call: the address of the TCP listener
\* (tcpServerAddress()) and the local address of the HTTP socket of the
\* request, either of which may be missing.
RequestEnv(addr, localAddress) == [addr |-> addr, localAddress |-> localAddress]
NoAddr == [bound |-> FALSE, address |-> <<>>, port |-> 0]
NoLocal == [known |-> FALSE, address |-> <<>>]

\* The follower has handled one more call: it threw, or it answered.
followerHandledIn(method, args, env, thrown, response) ==
  /\ Len(followerLog) < MaxFollowerCalls
  /\ followerLog' = Append(followerLog,
       [method |-> method, args |-> args, env |-> env, threw |-> thrown,
        response |-> response])

followerHandled(method, args, thrown, response) ==
  followerHandledIn(method, args, RequestEnv(NoAddr, NoLocal), thrown, response)

\* The response [1, "", 0].
ResponseOk == [code |-> 1, msg |-> <<>>, value |-> XNumber(0)]
NoResponse == [code |-> -1, msg |-> <<>>, value |-> XUndefined]

\* Whether the XML-RPC server of the follower hands calls to its handlers:
\* between RosFollower.start() and RosFollower.close().
followerListening == _url /\ _running

\* RosFollower.paramUpdate(_, args)
FollowerParamUpdate(args) ==
  /\ followerListening
  /\ IF CheckArguments(args, <<"string", "string", "*">>)
       THEN /\ followerHandled("paramUpdate", args, TRUE, NoResponse)
            /\ UNCHANGED <<nodeUpdates, parameters>>
       ELSE /\ handleParamUpdate(normalizedKey(args[2].s), args[3], args[1].s)
            /\ followerHandled("paramUpdate", args, FALSE, ResponseOk)
  /\ UNCHANGED <<nodeVars, retryVars, linkVars, paramCalls, lastReturn,
                 rpcReplied>>

\* The character codes of the names the node's tables are keyed by.
Bytes(text) ==
  CASE text = "/a" -> <<47, 97>>
    [] text = "/b" -> <<47, 98>>
    [] text = "http://pub:1/" ->
         <<104, 116, 116, 112, 58, 47, 47, 112, 117, 98, 58, 49, 47>>
    [] text = "http://pub:2/" ->
         <<104, 116, 116, 112, 58, 47, 47, 112, 117, 98, 58, 50, 47>>

\* The name that has these character codes.
Text(bytes) ==
  CHOOSE text \in {"/a", "/b", "http://pub:1/", "http://pub:2/"} :
    Bytes(text) = bytes

\* RosFollower.publisherUpdate(_, args)
FollowerPublisherUpdate(args) ==
  /\ followerListening
  /\ IF CheckArguments(args, <<"string", "string", "*">>)
       THEN /\ followerHandled("publisherUpdate", args, TRUE, NoResponse)
            /\ UNCHANGED <<nodeVars, retryVars, linkVars, nodeUpdates,
                           parameters, paramCalls, lastReturn, rpcReplied>>
       ELSE IF ~isArray(args[3])
         THEN /\ followerHandled("publisherUpdate", args, TRUE, NoResponse)
              /\ UNCHANGED <<nodeVars, retryVars, linkVars, nodeUpdates,
                             parameters, paramCalls, lastReturn, rpcReplied>>
       ELSE /\ PublisherUpdate(Text(args[2].s),
                   [k \in 1..Len(args[3].items) |-> Text(args[3].items[k].s)])
            /\ followerHandled("publisherUpdate", args, FALSE, ResponseOk)

\* RosFollower.shutdown(_, args): RosNode.shutdown() after the checks.  The
\* node's shutdown also empties the parameter cache.
FollowerShutdown(args) ==
  /\ followerListening
  /\ IF \/ Len(args) # 1 /\ Len(args) # 2
        \/ \E i \in 1..Len(args) : typeof(args[i]) # "string"
       THEN /\ followerHandled("shutdown", args, TRUE, NoResponse)
            /\ UNCHANGED <<nodeVars, retryVars, linkVars, parameters>>
       ELSE /\ Shutdown
            /\ parameters' = <<>>
            /\ followerHandled("shutdown", args, FALSE, ResponseOk)
  /\ UNCHANGED <<nodeUpdates, paramCalls, lastReturn, rpcReplied>>

\* The follower's methods that read the node: getBusStats, getBusInfo, getPid,
\* getSubscriptions, getPublications.  Their lists are not modelled: the
\* response carries the number of entries.
FollowerGetters ==
  {"getBusStats", "getBusInfo", "getPid", "getSubscriptions", "getPublications"}

FollowerGet(method, args) ==
  /\ followerListening
  /\ method \in FollowerGetters
  /\ IF CheckArguments(args, <<"string">>)
       THEN followerHandled(method, args, TRUE, NoResponse)
       ELSE followerHandled(method, args, FALSE,
              [code |-> 1, msg |-> <<>>,
               value |->
                 CASE method = "getSubscriptions" ->
                        XNumber(Cardinality({t \in Topics : subscriptions[t] # 0}))
                   [] method = "getPublications" ->
                        XNumber(Cardinality({t \in Topics : publications[t] # 0}))
                   [] OTHER -> XNumber(0)])
  /\ UNCHANGED <<nodeVars, retryVars, linkVars, nodeUpdates, parameters,
                 paramCalls, lastReturn, rpcReplied>>

sTCPROS == <<84, 67, 80, 82, 79, 83>>                          \* "TCPROS"

\* TcpRequested(protocols): some entry is a list that starts with "TCPROS".
TcpRequested(protocols) ==
  \E k \in 1..Len(protocols.items) :
    /\ isArray(protocols.items[k])
    /\ Len(protocols.items[k].items) > 0
    /\ protocols.items[k].items[1] = XString(sTCPROS)

\* ipaddr.process(address).toString(): an IPv4 address mapped into IPv6
\* ("::ffff:" and the address) becomes the IPv4 address.
sMapped == <<58, 58, 102, 102, 102, 102, 58>>                  \* "::ffff:"

ipaddrProcess(address) ==
  IF Len(address) > Len(sMapped) /\ SubSeq(address, 1, Len(sMapped)) = sMapped
    THEN SubSeq(address, Len(sMapped) + 1, Len(address))
    ELSE address

\* The reasons of a refusal, by the words that tell them apart.
NotAdvertised == <<110, 111, 116>>                             \* "not advertised"
Unsupported == <<117, 110, 115>>                               \* "unsupported protocol"
CannotReceive == <<99, 97, 110>>        \* "cannot receive incoming connections"

Refusal(msg) == [code |-> 0, msg |-> msg, value |-> XArray(<<>>)]

\* A requestTopic that looks at the protocols before the topic.
requestTopicProtocolsFirst(advertised, protocols, addr, localAddress) ==
  IF ~isArray(protocols) \/ ~TcpRequested(protocols) THEN Refusal(Unsupported)
  ELSE IF ~advertised THEN Refusal(NotAdvertised)
  ELSE IF ~addr.bound THEN Refusal(CannotReceive)
  ELSE [code |-> 1, msg |-> <<>>,
        value |-> XArray(<<XString(sTCPROS),
                           XString(ipaddrProcess(
                             IF localAddress.known THEN localAddress.address
                             ELSE addr.address)),
                           XNumber(addr.port)>>)]

\* The response of requestTopic to well-formed arguments: `advertised` is
\* publications.has(topic), addr what tcpServerAddress() resolves to and
\* localAddress is req?.socket?.localAddress.
requestTopicResponse(advertised, protocols, addr, localAddress) ==
  IF ~advertised THEN Refusal(NotAdvertised)
  ELSE IF ~isArray(protocols) \/ ~TcpRequested(protocols)
    THEN Refusal(Unsupported)
  ELSE IF ~addr.bound THEN Refusal(CannotReceive)
  ELSE [code |-> 1, msg |-> <<>>,
        value |-> XArray(<<XString(sTCPROS),
                           XString(ipaddrProcess(
                             IF localAddress.known THEN localAddress.address
                             ELSE addr.address)),
                           XNumber(addr.port)>>)]

\* RosFollower.requestTopic(_, args, req)
FollowerRequestTopic(args, addr, localAddress) ==
  /\ followerListening
  /\ IF CheckArguments(args, <<"string", "string", "*">>)
       THEN followerHandledIn("requestTopic", args,
              RequestEnv(addr, localAddress), TRUE, NoResponse)
       ELSE followerHandledIn("requestTopic", args,
              RequestEnv(addr, localAddress), FALSE,
              requestTopicResponse(publications[Text(args[2].s)] # 0,
                                   args[3], addr, localAddress))
  /\ UNCHANGED <<nodeVars, retryVars, linkVars, nodeUpdates, parameters,
                 paramCalls, lastReturn, rpcReplied>>

\* The status code of a successful XML-RPC response.
OK == 1

\* A test of the status that takes every status but ERROR for a success.
statusIsNotError(status) == status # -1

\* status === OK
statusIsOk(status) == status = OK

\* What a call of the master came to: it failed, or it was answered with
\* [status, msg, value].
Reply(failed, status, value) ==
  [failed |-> failed, status |-> status, value |-> value]
NoReply == Reply(FALSE, 0, XUndefined)

\* setParameter(key, value) up to its suspension on setParam.
SetParameter(key, value) ==
  /\ Len(paramCalls) < MaxParamCalls
  /\ paramCalls' = Append(paramCalls,
       [method |-> "setParameter", key |-> key, value |-> value,
        pc |-> "awaiting", result |-> XUndefined, reply |-> NoReply])
  /\ UNCHANGED <<nodeVars, retryVars, linkVars, nodeUpdates, parameters,
                 followerLog, lastReturn, rpcReplied>>

\* The call of setParam fails (`failed`), or the master answers it with
\* [status, msg]: setParameter rejects, or updates the node as a push of the
\* master does, with the name of the node as the caller.
SetParamReply(c, failed, status) ==
  /\ c \in 1..Len(paramCalls)
  /\ paramCalls[c].method = "setParameter" /\ paramCalls[c].pc = "awaiting"
  /\ IF failed \/ ~statusIsOk(status)
       THEN /\ paramCalls' =
                 [paramCalls EXCEPT ![c].pc = "rejected",
                                    ![c].reply = Reply(failed, status, XUndefined)]
            /\ UNCHANGED <<nodeUpdates, parameters>>
       ELSE /\ handleParamUpdate(paramCalls[c].key, paramCalls[c].value,
                                 NodeName)
            /\ paramCalls' =
                 [paramCalls EXCEPT ![c].pc = "resolved",
                                    ![c].reply = Reply(failed, status, XUndefined)]
  /\ UNCHANGED <<nodeVars, retryVars, linkVars, followerLog, lastReturn,
                 rpcReplied>>

\* A test that takes every object for an empty one.
isAnyObject(o) == o.t = "object"

\* isEmptyPlainObject(o): an object made by {} or by the Object constructor
\* that has no key.  Arrays and null are objects of other kinds.
isEmptyPlainObject(o) == o.t = "object" /\ o.items = <<>>

\* subscribeParam(key) up to its suspension on the subscribeParam call;
\* _callerApi() throws on a node that has no URL.
SubscribeParam(key) ==
  /\ Len(paramCalls) < MaxParamCalls
  /\ paramCalls' = Append(paramCalls,
       [method |-> "subscribeParam", key |-> key, value |-> XUndefined,
        pc |-> IF callerApiThrows THEN "rejected" ELSE "awaiting",
        result |-> XUndefined, reply |-> NoReply])
  /\ UNCHANGED <<nodeVars, retryVars, linkVars, nodeUpdates, parameters,
                 followerLog, lastReturn, rpcReplied>>

\* The call of subscribeParam fails (`failed`), or the master answers it
\* with [status, msg, value].
SubscribeParamReply(c, failed, status, value) ==
  /\ c \in 1..Len(paramCalls)
  /\ paramCalls[c].method = "subscribeParam" /\ paramCalls[c].pc = "awaiting"
  /\ IF failed \/ ~statusIsOk(status)
       THEN /\ paramCalls' =
                 [paramCalls EXCEPT ![c].pc = "rejected",
                                    ![c].reply = Reply(failed, status, value)]
            /\ UNCHANGED parameters
       ELSE LET adjustedValue ==
                  IF isEmptyPlainObject(value) THEN XUndefined ELSE value
            IN /\ parameters' =
                    parametersSet(parameters, paramCalls[c].key, adjustedValue)
               /\ paramCalls' =
                    [paramCalls EXCEPT ![c].pc = "resolved",
                                       ![c].reply = Reply(failed, status, value),
                                       ![c].result = adjustedValue]
  /\ UNCHANGED <<nodeVars, retryVars, linkVars, nodeUpdates, followerLog,
                 lastReturn, rpcReplied>>

\* Array.from(this.parameters.keys()): the keys of the cache as a list.
\* difference() reads it as a set, so its order has no effect.
parametersKeys(m) ==
  CHOOSE s \in [1..Cardinality(DOMAIN m) -> DOMAIN m] :
    \A key \in DOMAIN m : \E k \in 1..Cardinality(DOMAIN m) : s[k] = key

\* this.parameters.delete(key) for each key of removedKeys
parametersDelete(m, removedKeys) ==
  [key \in {k \in DOMAIN m : ~\E j \in 1..Len(removedKeys) : removedKeys[j] = k}
     |-> m[key]]

\* The strings of an XML-RPC array of strings, and the array of a list of
\* strings.
stringsOf(x) == [k \in 1..Len(x.items) |-> x.items[k].s]
arrayOf(strs) == XArray([k \in 1..Len(strs) |-> XString(strs[k])])

\* One entry of the answer to subscribeParams: an XmlRpcFault, or the
\* response [status, msg, value] of one subscribeParam.
XFault == XValue("fault", <<>>, <<>>)
XResponse(status, value) == XArray(<<XNumber(status), XString(<<>>), value>>)

\* The 'error' the node emits for a parameter subscribeAllParams could not
\* subscribe to.
ParamError(key) ==
  [event |-> "error", key |-> key, value |-> XUndefined,
   prevValue |-> XUndefined, callerId |-> <<>>]

\* An update loop that stops at the first entry that is not a success.
RECURSIVE subscribeAllLoopStops(_, _, _, _)
subscribeAllLoopStops(st, keys, res, i) ==
  IF ~(i < Len(keys)) THEN st
  ELSE LET key == keys[i + 1]
           entry == res[i + 1]
       IN IF entry = XFault \/ ~statusIsOk(entry.items[1].s[1])
            THEN [st EXCEPT !.emitted = Append(@, ParamError(key))]
            ELSE subscribeAllLoopStops(
                   [st EXCEPT !.parameters =
                      parametersSet(@, key,
                        IF isEmptyPlainObject(entry.items[3])
                          THEN XUndefined ELSE entry.items[3])],
                   keys, res, i + 1)

\* The update loop of subscribeAllParams from index i: the cache and the
\* 'error' events emitted when it is done.
RECURSIVE subscribeAllLoop(_, _, _, _)
subscribeAllLoop(st, keys, res, i) ==
  IF ~(i < Len(keys)) THEN st
  ELSE LET key == keys[i + 1]
           entry == res[i + 1]
       IN IF entry = XFault \/ ~statusIsOk(entry.items[1].s[1])
            THEN subscribeAllLoop(
                   [st EXCEPT !.emitted = Append(@, ParamError(key))],
                   keys, res, i + 1)
            ELSE subscribeAllLoop(
                   [st EXCEPT !.parameters =
                      parametersSet(@, key,
                        IF isEmptyPlainObject(entry.items[3])
                          THEN XUndefined ELSE entry.items[3])],
                   keys, res, i + 1)

\* subscribeAllParams() up to its suspension on getParamNames.
SubscribeAllParams ==
  /\ Len(paramCalls) < MaxParamCalls
  /\ paramCalls' = Append(paramCalls,
       [method |-> "subscribeAllParams", key |-> <<>>, value |-> XUndefined,
        pc |-> "getParamNames", result |-> XUndefined, reply |-> NoReply])
  /\ UNCHANGED <<nodeVars, retryVars, linkVars, nodeUpdates, parameters,
                 followerLog, lastReturn, rpcReplied>>

\* The call of getParamNames fails (`failed`), or the master answers it with
\* [status, msg, names]: subscribeAllParams rejects, or deletes the entries
\* of the cache the master did not name and then resolves, when the cache
\* has every name, or suspends on subscribeParams for the names it lacks.
\* The call keeps the names in `value` and the names it asks for in `result`.
GetParamNamesReply(c, failed, status, names) ==
  /\ c \in 1..Len(paramCalls)
  /\ paramCalls[c].method = "subscribeAllParams"
  /\ paramCalls[c].pc = "getParamNames"
  /\ IF failed \/ ~statusIsOk(status) \/ ~isArray(names) \/ callerApiThrows
       THEN /\ paramCalls' =
                 [paramCalls EXCEPT ![c].pc = "rejected",
                                    ![c].reply = Reply(failed, status, names)]
            /\ UNCHANGED parameters
       ELSE LET curKeys == parametersKeys(parameters)
                removedKeys == difference(curKeys, stringsOf(names))
                keys == difference(stringsOf(names), curKeys)
            IN /\ parameters' = parametersDelete(parameters, removedKeys)
               /\ paramCalls' =
                    [paramCalls EXCEPT
                       ![c].pc = IF Len(keys) = 0 THEN "resolved"
                                 ELSE "subscribeParams",
                       ![c].value = names,
                       ![c].result = arrayOf(keys),
                       ![c].reply = Reply(failed, status, names)]
  /\ UNCHANGED <<nodeVars, retryVars, linkVars, nodeUpdates, followerLog,
                 lastReturn, rpcReplied>>

\* The call of subscribeParams fails (`failed`), or the master answers it
\* with the list `res`: subscribeAllParams rejects when the call failed or
\* the list has not one entry for each name, and else stores the value of
\* every entry that is a success, emits 'error' for every other entry, and
\* resolves.
SubscribeParamsReply(c, failed, res) ==
  /\ c \in 1..Len(paramCalls)
  /\ paramCalls[c].method = "subscribeAllParams"
  /\ paramCalls[c].pc = "subscribeParams"
  /\ LET keys == stringsOf(paramCalls[c].result)
     IN IF failed \/ Len(res) # Len(keys)
          THEN /\ paramCalls' =
                    [paramCalls EXCEPT ![c].pc = "rejected",
                                       ![c].reply = Reply(failed, 0, XArray(res))]
               /\ UNCHANGED <<parameters, nodeUpdates>>
          ELSE LET done == subscribeAllLoop(
                             [parameters |-> parameters, emitted |-> <<>>],
                             keys, res, 0)
               IN /\ Len(nodeUpdates) + Len(done.emitted) <= MaxUpdates
                  /\ parameters' = done.parameters
                  /\ nodeUpdates' = nodeUpdates \o done.emitted
                  /\ paramCalls' =
                       [paramCalls EXCEPT ![c].pc = "resolved",
                                          ![c].reply = Reply(failed, 0, XArray(res))]
  /\ UNCHANGED <<nodeVars, retryVars, linkVars, followerLog, lastReturn,
                 rpcReplied>>

\* _handleTcpClientConnection(topic, connectionId, callerId, client): the
\* publication of the topic holds the client, or the client is closed.  The
\* TcpPublisher that accepted the client took its connectionId from
\* getConnectionId, the _newConnectionId of the node.
HandleTcpClientConnectionUpTo(topic, limit) ==
  /\ _running
  /\ Len(inbound) < limit
  /\ _connectionIdCounter' = newConnectionId.counter
  /\ inbound' = Append(inbound,
       IF publications[topic] = 0
         THEN [pub |-> 0, held |-> FALSE, sock |-> "closing",
               connectionId |-> newConnectionId.id, topic |-> topic,
               written |-> 0]
         ELSE [pub |-> publications[topic], held |-> TRUE, sock |-> "open",
               connectionId |-> newConnectionId.id, topic |-> topic,
               written |-> 0])
  /\ UNCHANGED <<nodeVars, retryVars, stp, links, publications, pubs, advs>>

HandleTcpClientConnection(topic) ==
  HandleTcpClientConnectionUpTo(topic, MaxInbound)

\* The socket of a subscriber client starts to close: the peer went away, or
\* the client closed it on data it could not decode.
InboundSocketFails(c) ==
  /\ c \in 1..Len(inbound) /\ inbound[c].sock = "open"
  /\ inbound' = [inbound EXCEPT ![c].sock = "closing"]
  /\ UNCHANGED <<nodeVars, retryVars, stp, links, publications, pubs, advs,
                 _connectionIdCounter>>

\* A 'close' listener that leaves the client in the set.
subscribersDeleteNot(cs, c) == [cs EXCEPT ![c].sock = "closed"]

\* The 'close' event of a subscriber client: the listener addSubscriber
\* registered deletes it from the subscribers of its Publication.
subscribersDelete(cs, c) ==
  [cs EXCEPT ![c].sock = "closed", ![c].held = FALSE]

InboundSocketCloses(c) ==
  /\ c \in 1..Len(inbound) /\ inbound[c].sock = "closing"
  /\ inbound' = subscribersDelete(inbound, c)
  /\ UNCHANGED <<nodeVars, retryVars, stp, links, publications, pubs, advs,
                 _connectionIdCounter>>

\* unadvertise(topic) and the boolean it returns.
Unadvertise(topic) ==
  /\ IF publications[topic] = 0
       THEN UNCHANGED <<nodeVars, retryVars, linkVars>>
       ELSE /\ rpcSent' = rpcSent
                 \cup UnregisterPublisherRpc(topic, publications[topic])
            /\ inbound' = publicationClose(inbound, {publications[topic]})
            /\ publications' = [publications EXCEPT ![topic] = 0]
            /\ UNCHANGED <<_running, _url, subscriptions, subs, retryVars, stp,
                           links, pubs, advs, _connectionIdCounter>>
  /\ lastReturn' = [call |-> "unadvertise", topic |-> topic,
                    options |-> NoOptions, sub |-> publications[topic],
                    ok |-> publications[topic] # 0]
  /\ UNCHANGED <<nodeUpdates, parameters, paramCalls, followerLog, rpcReplied>>

\* Publication.write("TCPROS", data) up to Promise.allSettled, for the
\* Publication object p: a write is issued to every client it holds.
publicationWrite(cs, p) ==
  [c \in 1..Len(cs) |->
     IF cs[c].held /\ cs[c].pub = p
       THEN [cs[c] EXCEPT !.written = @ + 1] ELSE cs[c]]

\* publish(topic, message) of a node that has a TCP server: it rejects when
\* the topic is not advertised, and else hands the publication and the
\* message to the TcpPublisher, which writes the encoded message to the
\* publication.
Publish(topic) ==
  /\ \A c \in 1..Len(inbound) :
       (inbound[c].held /\ inbound[c].pub = publications[topic]) =>
         inbound[c].written < MaxNodePublish
  /\ inbound' = IF publications[topic] = 0 THEN inbound
                ELSE publicationWrite(inbound, publications[topic])
  /\ lastReturn' = [call |-> "publish", topic |-> topic,
                    options |-> NoOptions, sub |-> publications[topic],
                    ok |-> publications[topic] # 0]
  /\ UNCHANGED <<nodeVars, retryVars, stp, links, publications, pubs, advs,
                 _connectionIdCounter>>
  /\ UNCHANGED <<nodeUpdates, parameters, paramCalls, followerLog, rpcReplied>>

(***************************************************************************)
(* TcpConnection: the subscriber's end of one TCPROS link, its socket and  *)
(* the publisher at the other end.  The socket delivers each 'data' chunk  *)
(* in a buffer of its own.                                                 *)
(***************************************************************************)
MaxConnects == 2    \* socket.connect() calls of one connection
MaxPublish == 1     \* message frames the publisher sends in one session
MaxDecode == 2      \* the same, in the runs that follow one frame by another

\* The response header the publisher answers a request header with.
PeerHeader == <<[key |-> <<116>>, value |-> <<104>>]>>

\* The socket hands over what it has received in pieces of these sizes, or
\* all of it at once.
ChunkSizes == {2}

\* The message payloads the publisher sends.
PeerPayloads == {<<7>>, <<>>}

\* MessageReader.readMessage for a message type of one uint8 field: it
\* throws on a payload too short to hold the field.
readMessageThrows(bytes) == Len(bytes) < 1

Ev(kind, sess, f, data, header) ==
  [kind |-> kind, session |-> sess, frame |-> f, data |-> data,
   header |-> header]

\* emit(...): close() has removed every listener.
Emit(evs, shutdown, e) == IF shutdown THEN evs ELSE Append(evs, e)

ConnState(readingHeader, msgReader, f, evs) ==
  [readingHeader |-> readingHeader, msgReader |-> msgReader, frame |-> f,
   events |-> evs]

\* A _handleMessage that drops its reader when a message cannot be decoded.
handleMessageGivesUp(c, sess, msgData) ==
  LET f == c.frame + 1 IN
  IF c.readingHeader
    THEN ConnState(FALSE, TRUE, f,
           Append(c.events, Ev("header", sess, f, msgData, ParseHeader(msgData))))
  ELSE IF ~c.msgReader THEN ConnState(FALSE, FALSE, f, c.events)
  ELSE IF readMessageThrows(msgData)
    THEN ConnState(FALSE, FALSE, f,
           Append(c.events, Ev("error", sess, f, msgData, <<>>)))
  ELSE ConnState(FALSE, TRUE, f,
           Append(c.events, Ev("message", sess, f, msgData, <<>>)))

\* _handleMessage(msgData), as _handleData reaches it: not shut down.
handleMessage(c, sess, msgData) ==
  LET f == c.frame + 1 IN
  IF c.readingHeader
    THEN ConnState(FALSE, TRUE, f,
           Append(c.events, Ev("header", sess, f, msgData, ParseHeader(msgData))))
  ELSE IF ~c.msgReader THEN ConnState(FALSE, FALSE, f, c.events)
  ELSE IF readMessageThrows(msgData)
    THEN ConnState(FALSE, TRUE, f,
           Append(c.events, Ev("error", sess, f, msgData, <<>>)))
  ELSE ConnState(FALSE, TRUE, f,
           Append(c.events, Ev("message", sess, f, msgData, <<>>)))

\* A counter of the bytes received that counts the 4-byte length prefix of
\* each frame too.
RECURSIVE statsWithPrefixes(_, _)
statsWithPrefixes(st, frames) ==
  IF frames = <<>> THEN st
  ELSE statsWithPrefixes(
         [st EXCEPT !.bytesReceived = @ + 4 + Len(Head(frames))], Tail(frames))

\* this._stats.bytesReceived += msgData.byteLength, for each frame that
\* _handleMessage is given during one addData call.
RECURSIVE statsAfter(_, _)
statsAfter(st, frames) ==
  IF frames = <<>> THEN st
  ELSE statsAfter(
         [st EXCEPT !.bytesReceived = @ + Len(Head(frames))], Tail(frames))

\* The 'message' events of the transformer during one addData call.
RECURSIVE handleMessages(_, _, _)
handleMessages(c, sess, frames) ==
  IF frames = <<>> THEN c
  ELSE handleMessages(handleMessage(c, sess, Head(frames)), sess, Tail(frames))

\* socket.close()
socketClose(s) == IF s \in {"connecting", "open", "failing"} THEN "closing" ELSE s

\* socket.connect(): a socket that is neither new nor closed is left as it is.
socketConnect(s) == IF s \in {"idle", "closed"} THEN "connecting" ELSE s

RemoveAt(seq, k) == SubSeq(seq, 1, k - 1) \o SubSeq(seq, k + 1, Len(seq))

ConnInit ==
  /\ retries = 0
  /\ _connected = FALSE
  /\ _shutdown = FALSE
  /\ _readingHeader = TRUE
  /\ _msgReader = FALSE
  /\ sock = "idle"
  /\ atInfo = 0
  /\ writeFailed = 0
  /\ timers = <<>>
  /\ connectCalls = 0
  /\ session = 0
  /\ frame = 0
  /\ inbox = <<>>
  /\ peerGotHeader = FALSE
  /\ published = <<>>
  /\ events = <<>>
  /\ _stats = [bytesReceived |-> 0]
  /\ lastStep = "new"

\* connect(): the part that changes state.
connectUnguarded ==
  /\ connectCalls < MaxConnects
  /\ connectCalls' = connectCalls + 1
  /\ sock' = socketConnect(sock)

connect ==
  IF _shutdown
    THEN UNCHANGED <<sock, connectCalls>>
    ELSE /\ connectCalls < MaxConnects
         /\ connectCalls' = connectCalls + 1
         /\ sock' = socketConnect(sock)

\* _retryConnection()
retryConnectionNoIncrement(rng) ==
  IF _shutdown
    THEN UNCHANGED <<retries, timers>>
    ELSE /\ retries' = retries
         /\ timers' = Append(timers,
              [n |-> retries,
               ms |-> backoffTime(retries, DEFAULT_MAX_MS,
                                  DEFAULT_MAX_JITTER_MS, rng)])

retryConnection(rng) ==
  IF _shutdown
    THEN UNCHANGED <<retries, timers>>
    ELSE /\ retries' = retries + 1
         /\ timers' = Append(timers,
              [n |-> retries + 1,
               ms |-> backoffTime(retries + 1, DEFAULT_MAX_MS,
                                  DEFAULT_MAX_JITTER_MS, rng)])

\* The owner calls connect() on the connection it has just made.
OwnerConnect ==
  /\ connectCalls = 0
  /\ connect
  /\ lastStep' = "connect"
  /\ UNCHANGED <<streamVars, retries, _connected, _shutdown, _readingHeader,
                 _msgReader, atInfo, writeFailed, timers, session, frame,
                 inbox, peerGotHeader, published, events, _stats>>

\* The owner calls close().  A socket that was connecting may have its
\* 'connect' event queued already.
OwnerClose(raced) ==
  /\ _shutdown' = TRUE
  /\ _connected' = FALSE
  /\ sock' = IF raced /\ sock = "connecting" THEN sock ELSE socketClose(sock)
  /\ lastStep' = "close"
  /\ UNCHANGED <<streamVars, retries, _readingHeader, _msgReader, atInfo,
                 writeFailed, timers, connectCalls, session, frame, inbox,
                 peerGotHeader, published, events, _stats>>

\* The socket's 'connect' event: _handleConnect up to its first await.
SocketConnected ==
  /\ sock = "connecting"
  /\ session' = session + 1
  /\ frame' = 0
  /\ inbox' = <<>>
  /\ peerGotHeader' = FALSE
  /\ published' = <<>>
  /\ IF _shutdown
       THEN /\ sock' = socketClose("open")
            /\ UNCHANGED <<_connected, retries, atInfo>>
       ELSE /\ sock' = "open"
            /\ _connected' = TRUE
            /\ retries' = 0
            /\ atInfo' = atInfo + 1
  /\ lastStep' = "socketConnect"
  /\ UNCHANGED <<streamVars, _shutdown, _readingHeader, _msgReader,
                 writeFailed, timers, connectCalls, events, _stats>>

\* _getTransportInfo() resolves and _handleConnect calls writeHeader(): the
\* socket takes the request header (ok) or the write fails.
TransportInfoResolvedWith(ok, header) ==
  /\ atInfo > 0
  /\ atInfo' = atInfo - 1
  /\ IF ok /\ sock = "open"
       THEN /\ peerGotHeader' = TRUE
            /\ inbox' = IF peerGotHeader THEN inbox
                        ELSE inbox \o encode(SerializeHeader(header))
            /\ UNCHANGED <<sock, writeFailed>>
       ELSE /\ writeFailed' = writeFailed + 1
            /\ sock' = IF sock = "open" THEN "failing" ELSE sock
            /\ UNCHANGED <<peerGotHeader, inbox>>
  /\ lastStep' = "writeHeader"
  /\ UNCHANGED <<streamVars, retries, _connected, _shutdown, _readingHeader,
                 _msgReader, timers, connectCalls, session, frame, published,
                 events, _stats>>

TransportInfoResolved(ok) == TransportInfoResolvedWith(ok, PeerHeader)

\* writeHeader() rejects: the catch block of _handleConnect.
WriteRejected(rng) ==
  /\ writeFailed > 0
  /\ writeFailed' = writeFailed - 1
  /\ events' = Emit(events, _shutdown, Ev("error", session, 0, <<>>, <<>>))
  /\ retryConnection(rng)
  /\ lastStep' = "writeRejected"
  /\ UNCHANGED <<streamVars, _connected, _shutdown, _readingHeader, _msgReader,
                 sock, atInfo, connectCalls, session, frame, inbox,
                 peerGotHeader, published, _stats>>

\* A backoff timer fires: .then(() => this.connect())
TimerFires(k) ==
  /\ k \in 1..Len(timers)
  /\ timers' = RemoveAt(timers, k)
  /\ connect
  /\ lastStep' = "timer"
  /\ UNCHANGED <<streamVars, retries, _connected, _shutdown, _readingHeader,
                 _msgReader, atInfo, writeFailed, session, frame, inbox,
                 peerGotHeader, published, events, _stats>>

\* The socket's 'error' event, which a 'close' event follows: _handleError.
SocketError ==
  /\ sock \in {"connecting", "open", "failing"}
  /\ sock' = "closing"
  /\ events' = Emit(events, _shutdown, Ev("error", session, 0, <<>>, <<>>))
  /\ lastStep' = "socketError"
  /\ UNCHANGED <<streamVars, retries, _connected, _shutdown, _readingHeader,
                 _msgReader, atInfo, writeFailed, timers, connectCalls,
                 session, frame, inbox, peerGotHeader, published, _stats>>

\* The socket's 'close' event: _handleClose.  What the publisher had sent
\* and the socket had not delivered is lost.
SocketClosed(rng) ==
  /\ sock \in {"open", "closing"}
  /\ sock' = "closed"
  /\ inbox' = <<>>
  /\ _connected' = FALSE
  /\ events' = Emit(events, _shutdown, Ev("error", session, 0, <<>>, <<>>))
  /\ retryConnection(rng)
  /\ lastStep' = "socketClose"
  /\ UNCHANGED <<streamVars, _shutdown, _readingHeader, _msgReader, atInfo,
                 writeFailed, connectCalls, session, frame, peerGotHeader,
                 published, _stats>>

\* The socket's 'data' event with the next len bytes: _handleData.
SocketData(len) ==
  /\ sock = "open"
  /\ len \in 1..Len(inbox)
  /\ len \in ChunkSizes \cup {Len(inbox)}
  /\ inbox' = SubSeq(inbox, len + 1, Len(inbox))
  /\ IF _shutdown
       THEN UNCHANGED <<streamVars, _readingHeader, _msgReader, frame, events,
                        sock, _stats>>
       ELSE LET r == addData(StreamState, MkChunk(SubSeq(inbox, 1, len), <<>>))
                c == handleMessages(
                       ConnState(_readingHeader, _msgReader, frame, events),
                       session, r.out)
            IN /\ _inMessage' = r.inMessage
               /\ _bytesNeeded' = r.bytesNeeded
               /\ _chunks' = r.chunks
               /\ _readingHeader' = c.readingHeader
               /\ _msgReader' = c.msgReader
               /\ frame' = c.frame
               /\ _stats' = statsAfter(_stats, r.out)
               /\ sock' = IF r.threw THEN socketClose(sock) ELSE sock
               /\ events' = IF r.threw
                              THEN Append(c.events,
                                     Ev("error", session, 0, <<>>, <<>>))
                              ELSE c.events
  /\ lastStep' = "data"
  /\ UNCHANGED <<retries, _connected, _shutdown, atInfo, writeFailed, timers,
                 connectCalls, session, peerGotHeader, published>>

\* The publisher, having answered the request header, publishes a message.
PeerPublishUpTo(m, limit) ==
  /\ sock = "open"
  /\ peerGotHeader
  /\ Len(published) < limit
  /\ published' = Append(published, m)
  /\ inbox' = inbox \o encode(m)
  /\ lastStep' = "publish"
  /\ UNCHANGED <<streamVars, retries, _connected, _shutdown, _readingHeader,
                 _msgReader, sock, atInfo, writeFailed, timers, connectCalls,
                 session, frame, peerGotHeader, events, _stats>>

PeerPublish(m) == PeerPublishUpTo(m, MaxPublish)

\* The peer sends the four bytes 01 CA 9A 3B, which read as the length
\* prefix 1,000,000,001 where a frame begins.
PeerSendsOversized ==
  /\ sock = "open"
  /\ Len(inbox) + 4 <= 4 + Len(SerializeHeader(PeerHeader)) + 5 * MaxPublish
  /\ inbox' = inbox \o <<1, 202, 154, 59>>
  /\ lastStep' = "oversized"
  /\ UNCHANGED <<streamVars, retries, _connected, _shutdown, _readingHeader,
                 _msgReader, sock, atInfo, writeFailed, timers, connectCalls,
                 session, frame, peerGotHeader, published, events, _stats>>

ConnIdle ==
  /\ retries = 0
  /\ _connected = FALSE
  /\ _shutdown = FALSE
  /\ _readingHeader = TRUE
  /\ _msgReader = FALSE
  /\ sock = "idle"
  /\ atInfo = 0
  /\ writeFailed = 0
  /\ timers = <<>>
  /\ connectCalls = 0
  /\ session = 0
  /\ frame = 0
  /\ inbox = <<>>
  /\ peerGotHeader = FALSE
  /\ published = <<>>
  /\ events = <<>>
  /\ _stats = [bytesReceived |-> 0]
  /\ lastStep = "idle"

(***************************************************************************)
(* TcpClient: the publisher's end of one inbound TCPROS link, and the      *)
(* Publication it subscribes to.  Strings are sequences of character       *)
(* codes.                                                                  *)
(***************************************************************************)
sTopic == <<116, 111, 112, 105, 99>>                           \* "topic"
sCallerid == <<99, 97, 108, 108, 101, 114, 105, 100>>          \* "callerid"
sType == <<116, 121, 112, 101>>                                \* "type"
sMd5sum == <<109, 100, 53, 115, 117, 109>>                     \* "md5sum"
sLatching == <<108, 97, 116, 99, 104, 105, 110, 103>>          \* "latching"
sMessageDefinition ==                                   \* "message_definition"
  <<109, 101, 115, 115, 97, 103, 101, 95, 100, 101, 102, 105, 110, 105, 116,
    105, 111, 110>>
sStar == <<42>>                                                \* "*"
sOne == <<49>>                                                 \* "1"
sZero == <<48>>                                                \* "0"

\* What Map.get returns for a key the map does not hold.
undefined == <<-1>>

\* header.get(key)
RECURSIVE HeaderGet(_, _)
HeaderGet(header, key) ==
  IF header = <<>> THEN undefined
  ELSE IF Head(header).key = key THEN Head(header).value
  ELSE HeaderGet(Tail(header), key)

\* The one publication of the node.
PubTopic == <<47, 97>>                                         \* "/a"
PubDataType == <<84>>                                          \* "T"
PubMd5sum == <<109>>                                           \* "m"
PubMessageDefinitionText == <<120, 61, 49>>                    \* "x=1"

\* this._getPublication(topic): TRUE when the topic is published.
getPublication(topic) == topic = PubTopic

\* The checks of _handleMessage on a parsed request header, in the two
\* sources of TcpClient: "accept", or the reason for closing.
ValidateNoTypeWildcard(p, header) ==
  LET topic == HeaderGet(header, sTopic)
      destinationCallerId == HeaderGet(header, sCallerid)
      dataType == HeaderGet(header, sType)
      got == HeaderGet(header, sMd5sum)
      md5sum == IF got = undefined THEN sStar ELSE got
  IN IF topic = undefined \/ dataType = undefined
          \/ destinationCallerId = undefined
       THEN "incomplete"
     ELSE IF ~getPublication(topic) THEN "unadvertised"
     ELSE IF p.dataType # dataType THEN "type"
     ELSE IF md5sum # sStar /\ p.md5sum # md5sum THEN "md5sum"
     ELSE "accept"

ValidateNoMd5Check(p, header) ==
  LET topic == HeaderGet(header, sTopic)
      destinationCallerId == HeaderGet(header, sCallerid)
      dataType == HeaderGet(header, sType)
  IN IF topic = undefined \/ dataType = undefined
          \/ destinationCallerId = undefined
       THEN "incomplete"
     ELSE IF ~getPublication(topic) THEN "unadvertised"
     ELSE IF dataType # sStar /\ p.dataType # dataType THEN "type"
     ELSE "accept"

ValidateTypeWildcard(p, header) ==
  LET topic == HeaderGet(header, sTopic)
      destinationCallerId == HeaderGet(header, sCallerid)
      dataType == HeaderGet(header, sType)
      got == HeaderGet(header, sMd5sum)
      md5sum == IF got = undefined THEN sStar ELSE got
  IN IF topic = undefined \/ dataType = undefined
          \/ destinationCallerId = undefined
       THEN "incomplete"
     ELSE IF ~getPublication(topic) THEN "unadvertised"
     ELSE IF dataType # sStar /\ p.dataType # dataType THEN "type"
     ELSE IF md5sum # sStar /\ p.md5sum # md5sum THEN "md5sum"
     ELSE "accept"

Validate(p, header) ==
  IF impl = "TcpClient.ts" THEN ValidateNoTypeWildcard(p, header)
  ELSE ValidateTypeWildcard(p, header)

\* The response header _handleMessage hands to _writeHeader.
ResponseHeaderNoLatching(p) ==
  <<[key |-> sCallerid, value |-> NodeName],
    [key |-> sMd5sum, value |-> p.md5sum],
    [key |-> sMessageDefinition, value |-> p.messageDefinitionText],
    [key |-> sTopic, value |-> p.name],
    [key |-> sType, value |-> p.dataType]>>

ResponseHeader(p) ==
  <<[key |-> sCallerid, value |-> NodeName],
    [key |-> sLatching, value |-> IF p.latching THEN sOne ELSE sZero],
    [key |-> sMd5sum, value |-> p.md5sum],
    [key |-> sMessageDefinition, value |-> p.messageDefinitionText],
    [key |-> sTopic, value |-> p.name],
    [key |-> sType, value |-> p.dataType]>>

MaxClients == 2     \* inbound connections accepted in one run
OneClient == 1      \* the same, where one connection's handshake is examined
MaxWrites == 2      \* Publication.write() calls in one run

\* The encoded payload handed to the k-th Publication.write().
PubPayload(k) == <<1, 0, 0, 0, 6 + k>>

\* A header entry, or none for an absent field.
OptField(key, value) ==
  IF value = undefined THEN <<>> ELSE <<[key |-> key, value |-> value]>>

RequestHeader(cid, md5, tp, ty) ==
  OptField(sCallerid, cid) \o OptField(sMd5sum, md5) \o OptField(sTopic, tp)
    \o OptField(sType, ty)

\* The request headers a peer may send: every combination of an absent, a
\* wildcard, a matching and a different type and md5sum for the advertised
\* topic, and a header without a topic, with another topic and without a
\* caller id.
RequestHeaders ==
  {RequestHeader(<<47, 115>>, md5, PubTopic, ty) :
     md5 \in {undefined, sStar, PubMd5sum, <<110>>},
     ty \in {undefined, sStar, PubDataType, <<85>>}}
  \cup {RequestHeader(<<47, 115>>, PubMd5sum, tp, PubDataType) :
          tp \in {undefined, <<47, 98>>}}
  \cup {RequestHeader(undefined, PubMd5sum, PubTopic, PubDataType)}

\* The request of a subscriber that knows the publication.
MatchingRequest ==
  RequestHeader(<<47, 115>>, PubMd5sum, PubTopic, PubDataType)

\* What a peer may send in one piece: a request header frame, or a length
\* prefix of 1,000,000,001.
PeerChunks ==
  {encode(SerializeHeader(h)) : h \in RequestHeaders} \cup {<<1, 202, 154, 59>>}

NewClient ==
  [sock |-> "open", _connected |-> TRUE, _receivedHeader |-> FALSE,
   dec |-> [inMessage |-> FALSE, bytesNeeded |-> 4, chunks |-> <<>>],
   wire |-> <<>>, events |-> {}, request |-> <<>>, joined |-> -1,
   errors |-> 0]

NoLatched == [set |-> FALSE, data |-> <<>>, detached |-> FALSE]

PubInit ==
  /\ impl \in {"TcpClient.ts", "part_001"}
  /\ detaches \in BOOLEAN
  /\ \E l \in BOOLEAN :
       pub = [name |-> PubTopic, md5sum |-> PubMd5sum,
              dataType |-> PubDataType, latching |-> l,
              messageDefinitionText |-> PubMessageDefinitionText,
              _latched |-> NoLatched, _subscribers |-> <<>>]
  /\ clients = <<>>
  /\ writes = <<>>

PubIdle ==
  /\ impl = "part_001"
  /\ detaches = FALSE
  /\ pub = [name |-> PubTopic, md5sum |-> PubMd5sum,
            dataType |-> PubDataType, latching |-> FALSE,
            messageDefinitionText |-> PubMessageDefinitionText,
            _latched |-> NoLatched, _subscribers |-> <<>>]
  /\ clients = <<>>
  /\ writes = <<>>

\* this._socket.write(bytes), issued for `call` (0: by the handshake): the
\* entry it adds to what the socket was given.
WireEntry(kind, bytes, call) ==
  [kind |-> kind, bytes |-> bytes, call |-> call, status |-> "pending"]

\* The bytes of a Uint8Array: none once its buffer is detached.
ArrayBytes(a) == IF a.detached THEN <<>> ELSE a.data

\* A close() that leaves the socket open.
clientCloseNot(c) == c

\* socket.close(): the socket's 'close' event follows later.
clientClose(c) ==
  [c EXCEPT !.sock = IF @ = "open" THEN "closing" ELSE @]

\* _handleMessage(msgData) of client id; st holds the client and the
\* publication; nWrites is the number of Publication.write() calls so far.
clientHandleMessage(st, id, msgData, nWrites) ==
  LET c == st.client
      p == st.pub
      header == ParseHeader(msgData)
      c1 == [c EXCEPT !._receivedHeader = TRUE, !.request = header]
      payload == encode(SerializeHeader(ResponseHeader(p)))
      c2 == [c1 EXCEPT !.wire = Append(@, WireEntry("header", payload, 0))]
      c3 == IF p._latched.set
              THEN [c2 EXCEPT !.wire =
                      Append(@, WireEntry("latched", ArrayBytes(p._latched), 0))]
              ELSE c2
      p3 == IF p._latched.set
              THEN [p EXCEPT !._latched.detached = @ \/ detaches]
              ELSE p
  IN IF c._receivedHeader THEN st
     ELSE IF Validate(p, header) # "accept"
       THEN [client |-> clientClose(c1), pub |-> p]
     ELSE [client |-> [c3 EXCEPT !.events = @ \cup {"subscribe"},
                                 !.joined = nWrites],
           pub |-> [p3 EXCEPT !._subscribers = Append(@, id)]]

RECURSIVE clientHandleMessages(_, _, _, _)
clientHandleMessages(st, id, frames, nWrites) ==
  IF frames = <<>> THEN st
  ELSE clientHandleMessages(
         clientHandleMessage(st, id, Head(frames), nWrites), id, Tail(frames),
         nWrites)

\* A socket is accepted and a TcpClient is made for it.
ClientConnects(limit) ==
  /\ Len(clients) < limit
  /\ clients' = Append(clients, NewClient)
  /\ UNCHANGED <<impl, detaches, pub, writes>>

\* The socket's 'data' event: _handleData(chunk).
ClientData(id, chunk) ==
  /\ id \in 1..Len(clients)
  /\ clients[id].sock = "open"
  /\ LET c == clients[id]
         r == addData(Decoder(c.dec.inMessage, c.dec.bytesNeeded,
                              c.dec.chunks, <<>>, FALSE),
                      MkChunk(chunk, <<>>))
         c1 == [c EXCEPT !.dec = [inMessage |-> r.inMessage,
                                  bytesNeeded |-> r.bytesNeeded,
                                  chunks |-> r.chunks]]
         st == clientHandleMessages([client |-> c1, pub |-> pub], id, r.out,
                                    Len(writes))
         c2 == IF r.threw
                 THEN [clientClose(st.client) EXCEPT
                         !.events = @ \cup {"error"}, !.errors = @ + 1]
                 ELSE st.client
     IN /\ clients' = [clients EXCEPT ![id] = c2]
        /\ pub' = st.pub
  /\ UNCHANGED <<impl, detaches, writes>>

\* The subscribers Publication.write() writes to.
FanOutFirstOnly(p) ==
  IF p._subscribers = <<>> THEN <<>> ELSE <<Head(p._subscribers)>>

FanOut(p) == p._subscribers

\* Publication.write(transportType, data), up to Promise.allSettled.
PublicationWrite(data) ==
  /\ Len(writes) < MaxWrites
  /\ LET call == Len(writes) + 1
         targets == FanOut(pub)
         ids == {targets[k] : k \in 1..Len(targets)}
     IN /\ pub' = IF pub.latching
                    THEN [pub EXCEPT !._latched =
                            [set |-> TRUE, data |-> data, detached |-> FALSE]]
                    ELSE pub
        /\ clients' = [id \in 1..Len(clients) |->
                         IF id \in ids
                           THEN [clients[id] EXCEPT !.wire =
                                   Append(@, WireEntry("publish", data, call))]
                           ELSE clients[id]]
        /\ writes' = Append(writes, [data |-> data, targets |-> targets,
                                     attached |-> pub._subscribers,
                                     state |-> "pending"])
  /\ UNCHANGED <<impl, detaches>>

FirstPending(c) ==
  IF \E j \in 1..Len(c.wire) : c.wire[j].status = "pending"
    THEN CHOOSE j \in 1..Len(c.wire) :
           /\ c.wire[j].status = "pending"
           /\ \A k \in 1..(j - 1) : c.wire[k].status # "pending"
    ELSE 0

\* The oldest socket.write() of a client settles: the continuation of
\* write() or _writeHeader().  A write on a socket that is not open, or of
\* no bytes, fails.
WriteSettles(id, ok) ==
  /\ id \in 1..Len(clients)
  /\ FirstPending(clients[id]) # 0
  /\ LET c == clients[id]
         j == FirstPending(c)
         good == ok /\ c.sock = "open" /\ c.wire[j].bytes # <<>>
     IN clients' = [clients EXCEPT ![id] =
          [c EXCEPT !.wire[j].status = IF good THEN "ok" ELSE "failed"]]
  /\ UNCHANGED <<impl, detaches, pub, writes>>

\* Promise.allSettled(tasks) of a Publication.write() call resolves.
WriteResolves(call) ==
  /\ call \in 1..Len(writes)
  /\ writes[call].state = "pending"
  /\ \A k \in 1..Len(writes[call].targets) :
       \A j \in 1..Len(clients[writes[call].targets[k]].wire) :
         clients[writes[call].targets[k]].wire[j].call = call
           => clients[writes[call].targets[k]].wire[j].status # "pending"
  /\ writes' = [writes EXCEPT ![call].state = "resolved"]
  /\ UNCHANGED <<impl, detaches, pub, clients>>

\* The socket's 'close' event: _handleClose, and the 'close' listener that
\* addSubscriber registered.
ClientSocketClosed(id) ==
  /\ id \in 1..Len(clients)
  /\ clients[id].sock \in {"open", "closing"}
  /\ clients' = [clients EXCEPT ![id].sock = "closed",
                                ![id]._connected = FALSE,
                                ![id].events = @ \cup {"close"}]
  /\ pub' = [pub EXCEPT !._subscribers = SelectSeq(@, LAMBDA x : x # id)]
  /\ UNCHANGED <<impl, detaches, writes>>

HarnessIdle ==
  /\ payloads = <<>>
  /\ wire = <<>>
  /\ fed = 0
  /\ emitted = <<>>
  /\ threw = FALSE
  /\ calls = 0

vars ==
  <<streamVars, harnessVars, headerVars, retryVars, nodeVars, connVars,
    backoffVars, pubVars, linkVars, updVars>>

\* What each specification leaves alone.
offStream == <<headerVars, retryVars, nodeVars, connVars, backoffVars, pubVars,
    linkVars, updVars>>
offHeader ==
  <<streamVars, harnessVars, retryVars, nodeVars, connVars, backoffVars, pubVars,
    linkVars, updVars>>
offRetry ==
  <<streamVars, harnessVars, headerVars, nodeVars, connVars, backoffVars, pubVars,
    linkVars, updVars>>
offNode ==
  <<streamVars, harnessVars, headerVars, connVars, backoffVars, pubVars,
    updVars>>
offUpd == <<streamVars, harnessVars, headerVars, connVars, backoffVars, pubVars>>
offConn == <<harnessVars, headerVars, retryVars, nodeVars, backoffVars, pubVars,
    linkVars, updVars>>
offBackoff ==
  <<streamVars, harnessVars, headerVars, retryVars, nodeVars, connVars,
    pubVars,
    linkVars, updVars>>
offPub ==
  <<streamVars, harnessVars, headerVars, retryVars, nodeVars, connVars,
    backoffVars,
    linkVars, updVars>>

\* Every component but the named ones at rest.
AllIdle ==
  /\ StreamInit /\ HarnessIdle /\ HeaderIdle /\ RetryIdle /\ NodeIdle
  /\ ConnIdle /\ BackoffIdle /\ PubIdle

(***************************************************************************)
(* The specifications.                                                     *)
(***************************************************************************)
InitStream ==
  /\ StreamInit /\ HarnessInit /\ HeaderIdle /\ RetryIdle /\ NodeIdle
  /\ ConnIdle /\ BackoffIdle /\ PubIdle

StreamNext ==
  FeedChunk /\ UNCHANGED offStream

SpecStream == InitStream /\ [][StreamNext]_vars

InitHeader ==
  /\ StreamInit /\ HarnessIdle /\ HeaderInit /\ RetryIdle /\ NodeIdle
  /\ ConnIdle /\ BackoffIdle /\ PubIdle

HeaderNext ==
  \/ DoSerializeHeader
       /\ UNCHANGED offHeader
  \/ DoParseHeader
       /\ UNCHANGED offHeader

SpecHeader == InitHeader /\ [][HeaderNext]_vars

InitRetry == AllIdle

RetryNext ==
  \/ CallRetryForever
       /\ UNCHANGED offRetry
  \/ \E v \in OpValues : OpReturns(v)
       /\ UNCHANGED offRetry
  \/ \E r \in RngTenths : OpThrows(r)
       /\ UNCHANGED offRetry
  \/ RetryTimerFires
       /\ UNCHANGED offRetry

SpecRetry == InitRetry /\ [][RetryNext]_vars

InitNode ==
  /\ StreamInit /\ HarnessIdle /\ HeaderIdle /\ NodeInit /\ ConnIdle
  /\ BackoffIdle /\ PubIdle

NodeNext ==
  \/ Start /\ UNCHANGED offNode
  \/ \E t \in Topics, r \in NodeRngTenths : Subscribe(t, r)
       /\ UNCHANGED offNode
  \/ \E t \in Topics : Unsubscribe(t)
       /\ UNCHANGED offNode
  \/ Shutdown /\ UNCHANGED offNode
  \/ \E i \in 1..MaxSubs, p \in PublisherLists : RegisterReplyOk(i, p)
       /\ UNCHANGED offNode
  \/ \E i \in 1..MaxSubs, r \in NodeRngTenths : RegisterReplyFail(i, r)
       /\ UNCHANGED offNode
  \/ \E i \in 1..MaxSubs, r \in NodeRngTenths : RegisterTimerFires(i, r)
       /\ UNCHANGED offNode

SpecNode == InitNode /\ [][NodeNext]_vars

\* A started node, the publishers it is told of, the connections it makes to
\* them and the publication it advertises, on one topic.
InitLinks ==
  /\ StreamInit /\ HarnessIdle /\ HeaderIdle /\ NodeStarted /\ ConnIdle
  /\ BackoffIdle /\ PubIdle

LinksNext ==
  \/ \E t \in LinkTopics, r \in NodeRngTenths : Subscribe(t, r)
       /\ UNCHANGED offNode
  \/ \E t \in LinkTopics : Unsubscribe(t) /\ UNCHANGED offNode
  \/ Shutdown /\ UNCHANGED offNode
  \/ \E i \in 1..MaxSubs : RegisterReplyOk(i, <<"http://pub:1/">>)
       /\ UNCHANGED offNode
  \/ \E i \in 1..MaxSubs, r \in NodeRngTenths : RegisterReplyFail(i, r)
       /\ UNCHANGED offNode
  \/ \E i \in 1..MaxSubs, r \in NodeRngTenths : RegisterTimerFires(i, r)
       /\ UNCHANGED offNode
  \/ \E k \in 1..MaxSubs, ok \in BOOLEAN : RequestTopicReply(k, ok)
       /\ UNCHANGED offNode
  \/ \E k \in 1..MaxSubs, ok \in BOOLEAN : SocketCreated(k, ok)
       /\ UNCHANGED offNode
  \/ \E c \in 1..MaxSubs : LinkMessage(c) /\ UNCHANGED offNode
  \/ \E c \in 1..MaxSubs : LinkReconnects(c) /\ UNCHANGED offNode
  \/ \E t \in LinkTopics : Advertise(t, MaxPubs) /\ UNCHANGED offNode
  \/ \E a \in 1..MaxPubs : AddressResolves(a) /\ UNCHANGED offNode
  \/ \E t \in LinkTopics : HandleTcpClientConnection(t)
       /\ UNCHANGED offNode

SpecLinks == InitLinks /\ [][LinksNext]_vars

\* A started node whose user advertises a topic, publishes to it and
\* unadvertises it, and the subscriber clients that come and go.
MembersNext ==
  \/ \E t \in LinkTopics : Advertise(t, MaxPubs + 1) /\ UNCHANGED offNode
  \/ \E a \in 1..(MaxPubs + 1) : AddressResolves(a) /\ UNCHANGED offNode
  \/ \E a \in 1..(MaxPubs + 1), ok \in BOOLEAN :
       RegisterPublisherReply(a, ok) /\ UNCHANGED offNode
  \/ \E t \in Topics : HandleTcpClientConnectionUpTo(t, MaxMembers)
       /\ UNCHANGED offNode
  \/ \E c \in 1..MaxMembers : InboundSocketFails(c) /\ UNCHANGED offNode
  \/ \E c \in 1..MaxMembers : InboundSocketCloses(c) /\ UNCHANGED offNode
  \/ \E t \in Topics : Unadvertise(t) /\ UNCHANGED offUpd
  \/ \E t \in Topics : Publish(t) /\ UNCHANGED offUpd
  \/ Shutdown /\ UNCHANGED offNode

SpecMembers == InitLinks /\ [][MembersNext]_vars

\* A started node whose user advertises topics, with calls that overlap.
AdvertiseNext ==
  \/ \E t \in Topics : Advertise(t, MaxAdvertise) /\ UNCHANGED offNode
  \/ \E a \in 1..MaxAdvertise : AddressResolves(a) /\ UNCHANGED offNode
  \/ \E a \in 1..MaxAdvertise, ok \in BOOLEAN :
       RegisterPublisherReply(a, ok) /\ UNCHANGED offNode
  \/ Shutdown /\ UNCHANGED offNode

SpecAdvertise == InitLinks /\ [][AdvertiseNext]_vars

\* A started node whose user subscribes to a topic and unsubscribes from it,
\* with the registration, the publisher connections and their traffic.
SubsNext ==
  \/ \E t \in LinkTopics, o \in SubscribeOptions, r \in NodeRngTenths :
       SubscribeReturns(t, o, r) /\ UNCHANGED offUpd
  \/ \E t \in LinkTopics : UnsubscribeReturns(t) /\ UNCHANGED offUpd
  \/ \E r \in rpcSent, ok \in BOOLEAN :
       UnregisterSubscriberReply(r, ok) /\ UNCHANGED offUpd
  \/ \E i \in 1..MaxSubs : RegisterReplyOk(i, <<"http://pub:1/">>)
       /\ UNCHANGED offNode
  \/ \E k \in 1..MaxSubs, ok \in BOOLEAN : RequestTopicReply(k, ok)
       /\ UNCHANGED offNode
  \/ \E k \in 1..MaxSubs, ok \in BOOLEAN : SocketCreated(k, ok)
       /\ UNCHANGED offNode
  \/ \E c \in 1..MaxSubs : LinkMessage(c) /\ UNCHANGED offNode
  \/ \E c \in 1..MaxSubs : LinkReconnects(c) /\ UNCHANGED offNode

SpecSubs == InitLinks /\ [][SubsNext]_vars

\* The arguments of the paramUpdate calls of the run: well-formed ones with
\* keys that end in no, one or two "/", and malformed ones.
ParamKeyInputs == {<<47, 112>>, <<47, 112, 47>>, <<47, 112, 47, 47>>, <<47>>}

ParamValueInputs ==
  {XNumber(42), XString(<<120>>), XObject(<<>>), XObject(<<XNumber(1)>>),
   XArray(<<>>)}

MasterName == <<47, 109>>                                      \* "/m"

ParamUpdateArgs ==
  {<<XString(MasterName), XString(k), v>> :
     k \in ParamKeyInputs, v \in {XNumber(42), XString(<<120>>)}}
  \cup {<<XString(MasterName), XString(<<47, 112>>)>>,
        <<XNumber(1), XString(<<47, 112>>), XNumber(42)>>,
        <<XString(MasterName), XArray(<<>>), XNumber(42)>>,
        <<XString(MasterName), XString(<<47, 112>>), XNumber(42), XNumber(0)>>}

\* A started node and its parameters: pushes from the master, and the
\* setParameter and subscribeParam calls of its user.
ParamsNext ==
  \/ \E args \in ParamUpdateArgs : FollowerParamUpdate(args)
       /\ UNCHANGED offUpd

SpecParams == InitLinks /\ [][ParamsNext]_vars

\* The outcomes of a call of the master: it fails, or it is answered with a
\* status and, on success, a value.
StatusCodes == {-1, 0, 1}

MasterReplies ==
  {Reply(TRUE, 0, XUndefined)}
  \cup {Reply(FALSE, status, XUndefined) : status \in StatusCodes \ {1}}
  \cup {Reply(FALSE, 1, v) : v \in ParamValueInputs}

\* A started node whose user sets parameters and subscribes to them.
ParamCallsNext ==
  \/ \E k \in {<<47, 112>>, <<47, 112, 47>>}, v \in {XNumber(42), XNumber(7)} :
       SetParameter(k, v) /\ UNCHANGED offUpd
  \/ \E c \in 1..MaxParamCalls, r \in MasterReplies :
       SetParamReply(c, r.failed, r.status) /\ UNCHANGED offUpd
  \/ \E k \in {<<47, 112>>, <<47, 113>>} : SubscribeParam(k)
       /\ UNCHANGED offUpd
  \/ \E c \in 1..MaxParamCalls, r \in MasterReplies :
       SubscribeParamReply(c, r.failed, r.status, r.value)
       /\ UNCHANGED offUpd

SpecParamCalls == InitLinks /\ [][ParamCallsNext]_vars

\* The names the master knows, the lists of names it answers getParamNames
\* with, and its answers to one subscribeParam of a subscribeParams call.
ParamP == <<47, 112>>                                           \* "/p"
ParamQ == <<47, 113>>                                           \* "/q"
ParamR == <<47, 114>>                                           \* "/r"
ParamS == <<47, 115>>                                           \* "/s"

ParamNameLists ==
  {<<>>} \cup {<<a>> : a \in {ParamP, ParamQ, ParamR}}
  \cup {<<ParamP, ParamR>>, <<ParamR, ParamQ>>, <<ParamP, ParamR, ParamS>>}

ParamEntries ==
  {XFault, XResponse(0, XUndefined), XResponse(1, XNumber(7)),
   XResponse(1, XObject(<<>>))}

NamesReplies ==
  {Reply(TRUE, 0, XUndefined), Reply(FALSE, 0, XArray(<<>>)),
   Reply(FALSE, 1, XString(ParamP))}
  \cup {Reply(FALSE, 1, arrayOf(l)) : l \in ParamNameLists}

BatchReplies ==
  {Reply(TRUE, 0, XArray(<<>>))}
  \cup {Reply(FALSE, 0, XArray(res)) : res \in SeqsUpTo(ParamEntries, MaxParamNames)}

\* A started node whose user subscribes to single parameters and to all of
\* them.
AllParamsNext ==
  \/ \E k \in {ParamP, ParamQ} : SubscribeParam(k) /\ UNCHANGED offUpd
  \/ \E c \in 1..MaxParamCalls, failed \in BOOLEAN :
       SubscribeParamReply(c, failed, 1, XNumber(42)) /\ UNCHANGED offUpd
  \/ /\ Cardinality({c \in 1..Len(paramCalls) :
                        paramCalls[c].method = "subscribeAllParams"})
          < MaxAllParams
     /\ SubscribeAllParams /\ UNCHANGED offUpd
  \/ \E c \in 1..MaxParamCalls, r \in NamesReplies :
       GetParamNamesReply(c, r.failed, r.status, r.value) /\ UNCHANGED offUpd
  \/ \E c \in 1..MaxParamCalls, r \in BatchReplies :
       SubscribeParamsReply(c, r.failed, r.value.items) /\ UNCHANGED offUpd

SpecAllParams == InitLinks /\ [][AllParamsNext]_vars

\* The calls the follower's XML-RPC server receives: well-formed ones, and
\* ones with an argument too few or too many or of another type.
sUrl1 == Bytes("http://pub:1/")
sUrl2 == Bytes("http://pub:2/")
Caller == XString(MasterName)

PublisherUpdateArgs ==
  {<<Caller, XString(Bytes("/a")), XArray(<<>>)>>,
   <<Caller, XString(Bytes("/a")), XArray(<<XString(sUrl1)>>)>>,
   <<Caller, XString(Bytes("/a")), XArray(<<XString(sUrl2)>>)>>,
   <<Caller, XString(Bytes("/a")), XString(sUrl2)>>,
   <<Caller, XString(Bytes("/a")), XObject(<<>>)>>,
   <<Caller, XString(Bytes("/a"))>>,
   <<Caller, XNumber(1), XArray(<<>>)>>,
   <<Caller, XString(Bytes("/a")), XArray(<<>>), XNumber(0)>>}

ShutdownArgs ==
  {<<>>, <<Caller>>, <<Caller, XString(<<120>>)>>,
   <<Caller, XString(<<120>>), XString(<<120>>)>>,
   <<XNumber(1)>>, <<Caller, XNumber(1)>>, <<Caller, XArray(<<>>)>>}

GetArgs == {<<Caller>>, <<>>, <<XNumber(1)>>, <<Caller, Caller>>}

FollowerParamArgs ==
  {<<Caller, XString(<<47, 112, 47>>), XNumber(42)>>,
   <<Caller, XString(<<47, 112, 47>>)>>,
   <<Caller, XArray(<<>>), XNumber(42)>>,
   <<XNumber(1), XString(<<47, 112, 47>>), XNumber(42)>>}

ProtocolLists ==
  {XArray(<<XArray(<<XString(sTCPROS)>>)>>),
   XArray(<<XArray(<<XString(<<85>>)>>), XArray(<<XString(sTCPROS), XNumber(1)>>)>>),
   XArray(<<XArray(<<XString(<<85>>)>>)>>),
   XArray(<<XString(sTCPROS)>>),
   XArray(<<XArray(<<>>)>>),
   XArray(<<>>),
   XString(sTCPROS)}

RequestTopicArgs ==
  {<<Caller, XString(Bytes(t)), p>> : t \in {"/a", "/b"}, p \in ProtocolLists}
  \cup {<<Caller, XString(Bytes("/a"))>>,
        <<Caller, XNumber(1), XArray(<<XArray(<<XString(sTCPROS)>>)>>)>>}

sHost == <<49, 46, 50, 46, 51, 46, 52>>                        \* "1.2.3.4"
sAny == <<48, 46, 48, 46, 48, 46, 48>>                         \* "0.0.0.0"
Listeners == {NoAddr, [bound |-> TRUE, address |-> sAny, port |-> 9000]}
LocalAddresses ==
  {NoLocal, [known |-> TRUE, address |-> sHost],
   [known |-> TRUE, address |-> sMapped \o sHost]}

\* A started node with a subscription, its publisher connections and a
\* publication, and the calls of its follower's methods.
FollowerNext ==
  \/ \E t \in LinkTopics, r \in NodeRngTenths : Subscribe(t, r)
       /\ UNCHANGED offNode
  \/ \E i \in 1..MaxSubs : RegisterReplyOk(i, <<"http://pub:1/">>)
       /\ UNCHANGED offNode
  \/ \E k \in 1..MaxStp : RequestTopicReply(k, TRUE) /\ UNCHANGED offNode
  \/ \E k \in 1..MaxStp : SocketCreated(k, TRUE) /\ UNCHANGED offNode
  \/ \E t \in LinkTopics : Advertise(t, MaxPubs) /\ UNCHANGED offNode
  \/ \E a \in 1..MaxPubs : AddressResolves(a) /\ UNCHANGED offNode
  \/ \E args \in FollowerParamArgs : FollowerParamUpdate(args)
       /\ Len(followerLog) < MaxProbes /\ UNCHANGED offUpd
  \/ \E args \in PublisherUpdateArgs : FollowerPublisherUpdate(args)
       /\ Len(followerLog) < MaxProbes /\ UNCHANGED offUpd
  \/ \E args \in ShutdownArgs : FollowerShutdown(args)
       /\ Len(followerLog) < MaxProbes /\ UNCHANGED offUpd
  \/ \E m \in FollowerGetters, args \in GetArgs : FollowerGet(m, args)
       /\ Len(followerLog) < MaxProbes /\ UNCHANGED offUpd
  \/ \E args \in RequestTopicArgs, addr \in Listeners :
       FollowerRequestTopic(args, addr, NoLocal)
       /\ Len(followerLog) < MaxProbes /\ UNCHANGED offUpd

SpecFollower == InitLinks /\ [][FollowerNext]_vars

\* A started node that advertises a topic and is asked for it.
RequestTopicNext ==
  \/ \E t \in LinkTopics : Advertise(t, MaxPubs) /\ UNCHANGED offNode
  \/ \E a \in 1..MaxPubs : AddressResolves(a) /\ UNCHANGED offNode
  \/ \E args \in RequestTopicArgs, addr \in Listeners,
        localAddress \in LocalAddresses :
       FollowerRequestTopic(args, addr, localAddress)
       /\ Len(followerLog) < MaxProbes /\ UNCHANGED offUpd

SpecRequestTopic == InitLinks /\ [][RequestTopicNext]_vars

\* A started node that the master tells of the publishers of a topic.
PublisherUrls == {"http://pub:1/", "http://pub:2/"}

UpdateLists ==
  {<<>>, <<"http://pub:1/">>, <<"http://pub:2/">>,
   <<"http://pub:1/", "http://pub:2/">>}

UpdateNext ==
  \/ \E t \in LinkTopics, r \in NodeRngTenths : Subscribe(t, r)
       /\ UNCHANGED offNode
  \/ \E i \in 1..MaxSubs : RegisterReplyOk(i, <<"http://pub:1/">>)
       /\ UNCHANGED offNode
  \/ \E t \in LinkTopics, p \in UpdateLists : PublisherUpdate(t, p)
       /\ UNCHANGED followerLog /\ UNCHANGED offUpd
  \/ \E k \in 1..MaxStp, ok \in BOOLEAN : RequestTopicReply(k, ok)
       /\ UNCHANGED offNode
  \/ \E k \in 1..MaxStp, ok \in BOOLEAN : SocketCreated(k, ok)
       /\ UNCHANGED offNode
  \/ \E t \in LinkTopics : Unsubscribe(t) /\ UNCHANGED offNode

SpecUpdate == InitLinks /\ [][UpdateNext]_vars

InitConn ==
  /\ StreamInit /\ HarnessIdle /\ HeaderIdle /\ RetryIdle /\ NodeIdle
  /\ ConnInit /\ BackoffIdle /\ PubIdle

ConnNext ==
  \/ OwnerConnect
       /\ UNCHANGED offConn
  \/ \E raced \in BOOLEAN : OwnerClose(raced)
       /\ UNCHANGED offConn
  \/ SocketConnected
       /\ UNCHANGED offConn
  \/ \E ok \in BOOLEAN : TransportInfoResolved(ok)
       /\ UNCHANGED offConn
  \/ \E r \in NodeRngTenths : WriteRejected(r)
       /\ UNCHANGED offConn
  \/ \E k \in 1..MaxConnects : TimerFires(k)
       /\ UNCHANGED offConn
  \/ SocketError
       /\ UNCHANGED offConn
  \/ \E r \in NodeRngTenths : SocketClosed(r)
       /\ UNCHANGED offConn
  \/ \E len \in 1..(4 + Len(SerializeHeader(PeerHeader)) + 5 * MaxPublish) :
       SocketData(len)
       /\ UNCHANGED offConn
  \/ \E m \in PeerPayloads : PeerPublish(m)
       /\ UNCHANGED offConn

SpecConn == InitConn /\ [][ConnNext]_vars

\* One session of a connection to a publisher that sends a length prefix
\* that is too large, and a subscriber client that does.
FramesNext ==
  \/ OwnerConnect
       /\ UNCHANGED offConn
  \/ OwnerClose(FALSE)
       /\ UNCHANGED offConn
  \/ SocketConnected
       /\ UNCHANGED offConn
  \/ TransportInfoResolved(TRUE)
       /\ UNCHANGED offConn
  \/ \E r \in NodeRngTenths : SocketClosed(r)
       /\ UNCHANGED offConn
  \/ \E len \in 1..(4 + Len(SerializeHeader(PeerHeader)) + 5 * MaxPublish) :
       SocketData(len)
       /\ UNCHANGED offConn
  \/ \E m \in PeerPayloads : PeerPublish(m)
       /\ UNCHANGED offConn
  \/ PeerSendsOversized
       /\ UNCHANGED offConn
  \/ ClientConnects(OneClient) /\ UNCHANGED offPub
  \/ \E id \in 1..OneClient,
        chunk \in {<<1, 202, 154, 59>>, encode(SerializeHeader(MatchingRequest))} :
       ClientData(id, chunk) /\ UNCHANGED offPub
  \/ \E id \in 1..OneClient : ClientSocketClosed(id) /\ UNCHANGED offPub

SpecFrames == InitConn /\ [][FramesNext]_vars

\* A connection to a publisher that sends message after message, some of
\* which cannot be decoded.
DecodeNext ==
  \/ OwnerConnect
       /\ UNCHANGED offConn
  \/ OwnerClose(FALSE)
       /\ UNCHANGED offConn
  \/ SocketConnected
       /\ UNCHANGED offConn
  \/ TransportInfoResolved(TRUE)
       /\ UNCHANGED offConn
  \/ \E k \in 1..MaxConnects : TimerFires(k)
       /\ UNCHANGED offConn
  \/ \E r \in NodeRngTenths : SocketClosed(r)
       /\ UNCHANGED offConn
  \/ \E len \in 1..(4 + Len(SerializeHeader(PeerHeader)) + 5 * MaxDecode) :
       SocketData(len)
       /\ UNCHANGED offConn
  \/ \E m \in PeerPayloads : PeerPublishUpTo(m, MaxDecode)
       /\ UNCHANGED offConn

SpecDecode == InitConn /\ [][DecodeNext]_vars

\* The publication of the round trip between two nodes: topic "/a" of type
\* "std_msgs/Bool", defined by "bool data" and latching, advertised by the
\* node "/nodeB". Its md5sum is the 32 hexadecimal digits computed from the
\* definition.
RoundTripPublication ==
  [name |-> <<47, 97>>,
   dataType |-> <<115, 116, 100, 95, 109, 115, 103, 115, 47, 66, 111, 111, 108>>,
   md5sum |-> 
     <<56, 98, 57, 52, 99, 49, 98, 53, 51, 100, 98, 54, 49, 102, 98, 54>>
     \o <<97, 101, 100, 52, 48, 54, 48, 50, 56, 97, 100, 54, 51, 51, 50, 97>>,
   messageDefinitionText |-> <<98, 111, 111, 108, 32, 100, 97, 116, 97>>,
   latching |-> TRUE]

\* The response header the TcpClient of "/nodeB" writes for it.
RoundTripHeader ==
  [ResponseHeader(RoundTripPublication) EXCEPT
     ![1].value = <<47, 110, 111, 100, 101, 66>>]

\* The encoded messages {data: true} and, for a frame without payload, the
\* empty one.
RoundTripPayloads == {<<1>>, <<>>}

\* Subscription.receivedBytes() over the connections of its publishers.
RECURSIVE receivedBytes(_)
receivedBytes(conns) ==
  IF conns = <<>> THEN 0
  ELSE Head(conns).bytesReceived + receivedBytes(Tail(conns))

\* A connection to the publisher of the round trip, which answers the
\* request header and publishes.
RoundTripNext ==
  \/ OwnerConnect
       /\ UNCHANGED offConn
  \/ SocketConnected
       /\ UNCHANGED offConn
  \/ TransportInfoResolvedWith(TRUE, RoundTripHeader)
       /\ UNCHANGED offConn
  \/ \E len \in 1..(4 + Len(SerializeHeader(RoundTripHeader)) + 5 * MaxDecode) :
       SocketData(len)
       /\ UNCHANGED offConn
  \/ \E m \in RoundTripPayloads : PeerPublishUpTo(m, MaxDecode)
       /\ UNCHANGED offConn

SpecRoundTrip == InitConn /\ [][RoundTripNext]_vars

InitBackoff ==
  /\ StreamInit /\ HarnessIdle /\ HeaderIdle /\ RetryIdle /\ NodeIdle
  /\ ConnIdle /\ BackoffInit /\ PubIdle

BackoffNext ==
  \/ CallBackoffTime /\ UNCHANGED offBackoff
  \/ NextRetries /\ UNCHANGED offBackoff

SpecBackoff == InitBackoff /\ [][BackoffNext]_vars

InitPub ==
  /\ StreamInit /\ HarnessIdle /\ HeaderIdle /\ RetryIdle /\ NodeIdle
  /\ ConnIdle /\ BackoffIdle /\ PubInit

\* One inbound connection, every request header.
HandshakeNext ==
  \/ ClientConnects(OneClient) /\ UNCHANGED offPub
  \/ \E id \in 1..OneClient, chunk \in PeerChunks : ClientData(id, chunk)
       /\ UNCHANGED offPub
  \/ PublicationWrite(PubPayload(Len(writes) + 1)) /\ UNCHANGED offPub
  \/ \E id \in 1..OneClient, ok \in BOOLEAN : WriteSettles(id, ok)
       /\ UNCHANGED offPub
  \/ \E call \in 1..MaxWrites : WriteResolves(call) /\ UNCHANGED offPub
  \/ \E id \in 1..OneClient : ClientSocketClosed(id) /\ UNCHANGED offPub

SpecHandshake == InitPub /\ [][HandshakeNext]_vars

\* Several inbound connections of subscribers that know the publication.
PubNext ==
  \/ ClientConnects(MaxClients) /\ UNCHANGED offPub
  \/ \E id \in 1..MaxClients :
       ClientData(id, encode(SerializeHeader(MatchingRequest)))
         /\ UNCHANGED offPub
  \/ PublicationWrite(PubPayload(Len(writes) + 1)) /\ UNCHANGED offPub
  \/ \E id \in 1..MaxClients, ok \in BOOLEAN : WriteSettles(id, ok)
       /\ UNCHANGED offPub
  \/ \E call \in 1..MaxWrites : WriteResolves(call) /\ UNCHANGED offPub
  \/ \E id \in 1..MaxClients : ClientSocketClosed(id) /\ UNCHANGED offPub

InitFanOut == InitPub /\ impl = "part_001"

SpecPub == InitFanOut /\ [][PubNext]_vars

(***************************************************************************)
(* What the wire format says the fed bytes hold (section 4.A of the        *)
(* specification): the payloads of the complete frames, read in order,     *)
(* stopping at the first length prefix above MAX_MSG_LENGTH.               *)
(***************************************************************************)
RECURSIVE RefFrames(_)
RefFrames(bytes) ==
  IF Len(bytes) < 4 THEN <<>>
  ELSE LET n == getUint32(bytes, 0)
       IN IF n > MAX_MSG_LENGTH \/ Len(bytes) < 4 + n THEN <<>>
          ELSE <<SubSeq(bytes, 5, 4 + n)>> \o RefFrames(SubSeq(bytes, 5 + n, Len(bytes)))

\* The bytes hold a complete length prefix above MAX_MSG_LENGTH at a frame start.
RECURSIVE RefBad(_)
RefBad(bytes) ==
  IF Len(bytes) < 4 THEN FALSE
  ELSE LET n == getUint32(bytes, 0)
       IN IF n > MAX_MSG_LENGTH THEN TRUE
          ELSE IF Len(bytes) < 4 + n THEN FALSE
          ELSE RefBad(SubSeq(bytes, 5 + n, Len(bytes)))

\* What the decoder still needs after the bytes: <<inMessage, bytesNeeded>>.
RECURSIVE RefNeed(_)
RefNeed(bytes) ==
  IF Len(bytes) < 4 THEN <<FALSE, 4 - Len(bytes)>>
  ELSE LET n == getUint32(bytes, 0)
       IN IF Len(bytes) < 4 + n THEN <<TRUE, 4 + n - Len(bytes)>>
          ELSE RefNeed(SubSeq(bytes, 5 + n, Len(bytes)))

FedBytes == SubSeq(wire, 1, fed)

(***************************************************************************)
(* C1.  Feeding encode(p1)..encode(pn) in any chunking emits exactly       *)
(* p1..pn, in order, with the length prefixes removed: once the whole wire *)
(* of complete frames has been fed, the emitted messages are the payloads. *)
(***************************************************************************)
C1_EmitsPayloads ==
  (~threw /\ wire = encodeAll(payloads) /\ fed = Len(wire)) => emitted = payloads

(***************************************************************************)
(* C2.  The decoder is greedy: after every addData call that returns       *)
(* normally, as many messages were emitted as the fed bytes hold complete  *)
(* frames, and the decoder awaits the rest of a length prefix (1..4 bytes) *)
(* or the rest of a payload of the declared length (1..L bytes).           *)
(***************************************************************************)
C2_Greedy ==
  ~threw =>
    /\ Len(emitted) = Len(RefFrames(FedBytes))
    /\ <<_inMessage, _bytesNeeded>> = RefNeed(FedBytes)
    /\ _bytesNeeded >= 1
    /\ ~_inMessage => _bytesNeeded <= 4

(***************************************************************************)
(* C3.  addData throws in the very call that delivers the fourth byte of a *)
(* length prefix above 1,000,000,000, and in no other call (a prefix of    *)
(* exactly 1,000,000,000 does not throw); no message is emitted for the    *)
(* frame of that prefix.                                                   *)
(***************************************************************************)
C3_ThrowsAtPrefix ==
  /\ threw <=> RefBad(FedBytes)
  /\ threw => Len(emitted) = Len(RefFrames(FedBytes))

(***************************************************************************)
(* C4.  Header codec round trip: ParseHeader(SerializeHeader(m)) is m, for *)
(* every Map of short keys without "=" and short values, the empty Map and *)
(* entries with an empty value included.                                   *)
(***************************************************************************)
C4_RoundTrip == hdrPc = "parsed" => hdrOut = hdrIn

\* A two-entry header with an empty value and a value holding "=" was parsed.
C4_Witness ==
  /\ hdrPc = "parsed"
  /\ Len(hdrIn) = 2
  /\ hdrIn[1].value = <<>>
  /\ EQ \in {hdrIn[2].value[i] : i \in 1..Len(hdrIn[2].value)}
  /\ hdrBytes # <<>>

(***************************************************************************)
(* C5.  A TcpConnection closed by its owner never reopens: from close()    *)
(* on, connected() is false and no socket connect is initiated, whatever   *)
(* socket events arrive and whatever timer or connect was pending.         *)
(***************************************************************************)
C5_ClosedNeverReopens ==
  /\ [](_shutdown => ~_connected)
  /\ [][_shutdown => (_shutdown' /\ connectCalls' = connectCalls)]_vars

\* A backoff timer that was pending at close() has fired since.
C5_Witness ==
  /\ _shutdown
  /\ lastStep = "timer"
  /\ session >= 1
  /\ connectCalls = 1

(***************************************************************************)
(* C6.  In every session of a TcpConnection, the first connect and each    *)
(* reconnect alike, the first frame received is taken as the response      *)
(* header and emitted as the one 'header' event of the session; only the   *)
(* frames after it are decoded as messages.                                *)
(***************************************************************************)
C6_FirstFrameIsHeader ==
  \A k \in 1..Len(events) :
    events[k].frame >= 1 => (events[k].kind = "header" <=> events[k].frame = 1)

(***************************************************************************)
(* C7.  After a reconnect, whatever the point of the byte stream at which  *)
(* the earlier socket was closed, a message the publisher sends on the new *)
(* socket is emitted as a 'message' event carrying exactly its payload.    *)
(***************************************************************************)
C7_DeliveredAfterReconnect ==
  (session >= 2 /\ sock = "open" /\ ~_shutdown /\ inbox = <<>>) =>
    \A k \in 1..Len(published) :
      ~readMessageThrows(published[k]) =>
        \E j \in 1..Len(events) :
          /\ events[j].kind = "message"
          /\ events[j].session = session
          /\ events[j].data = published[k]

(***************************************************************************)
(* C8.  While the connection is not closed by its owner: a socket close    *)
(* and a failed request-header write each emit an 'error' event, add one   *)
(* to retries and arm a timer of backoff(retries); when the timer fires    *)
(* socket.connect() is called; a socket connect sets retries to 0.         *)
(***************************************************************************)
C8_RetryOnFailure ==
  [][/\ (lastStep' \in {"socketClose", "writeRejected"} /\ ~_shutdown) =>
          /\ retries' = retries + 1
          /\ \E r \in NodeRngTenths :
               timers' = Append(timers,
                 [n |-> retries + 1,
                  ms |-> backoffTime(retries + 1, DEFAULT_MAX_MS,
                                     DEFAULT_MAX_JITTER_MS, r)])
          /\ events' = Append(events, Ev("error", session, 0, <<>>, <<>>))
     /\ (lastStep' = "timer" /\ ~_shutdown) =>
          /\ connectCalls' = connectCalls + 1
          /\ Len(timers') = Len(timers) - 1
     /\ (lastStep' = "socketConnect" /\ ~_shutdown) =>
          /\ retries' = 0
          /\ _connected'
    ]_vars

\* The socket of the first session closed, the timer of backoff(1) fired and
\* the second connect is under way.
C8_Witness ==
  /\ ~_shutdown
  /\ lastStep = "timer"
  /\ session = 1
  /\ retries = 1
  /\ connectCalls = 2
  /\ sock = "connecting"

(***************************************************************************)
(* C9.  retryForever(op) resolves with the value of the first invocation   *)
(* of op that does not throw and never invokes op after that; the wait     *)
(* before invocation k+1 is backoff(k), k = 1, 2, ... being the number of  *)
(* failed attempts so far; it never rejects.                               *)
(***************************************************************************)
Failed(log) == {k \in 1..Len(log) : log[k].threw}

C9_LoopShape(l, log) ==
  /\ l.pc \in {"calling", "sleeping", "done"}
  /\ l.retries = Cardinality(Failed(log))
  /\ Len(l.sleeps) = l.retries
  /\ \A k \in 1..Len(l.sleeps) :
       /\ l.sleeps[k].retries = k
       /\ \E r \in RngTenths : l.sleeps[k].ms =
            backoffTime(k, DEFAULT_MAX_MS, DEFAULT_MAX_JITTER_MS, r)
  /\ l.calls = Len(l.sleeps) + (IF l.pc = "sleeping" THEN 0 ELSE 1)
  /\ l.pc = "done" =>
       /\ Len(log) = l.calls
       /\ Failed(log) = 1..(l.calls - 1)
       /\ l.result = log[l.calls].value

C9_RetryForever ==
  /\ [](\A i \in 1..Len(loops) : C9_LoopShape(loops[i], opLog[i]))
  /\ [][\A i \in 1..Len(loops) :
          loops[i].pc = "done" => (loops'[i] = loops[i] /\ opLog'[i] = opLog[i])
       ]_vars

C9_Witness ==
  /\ Len(loops) = 1
  /\ loops[1].pc = "done"
  /\ loops[1].calls = 3
  /\ loops[1].result = <<"v2">>
  /\ loops[1].sleeps[2].ms = 504

(***************************************************************************)
(* C10.  The registration retry loop is cancellable: once unsubscribe or   *)
(* shutdown has closed a subscription whose retryForever loop is sleeping  *)
(* between failed registerSubscriber attempts, the loop does not invoke    *)
(* its operation again.                                                    *)
(***************************************************************************)
C10_Cancellable ==
  [][\A i \in 1..Len(loops) :
       (loops[i].pc = "sleeping" /\ subs[i].closed)
         => loops'[i].calls = loops[i].calls
    ]_vars

(***************************************************************************)
(* C11.  backoffTime(n, maxMs, maxJitterMs, rng) is the smaller of         *)
(* 2^n + rng() * maxJitterMs and maxMs; with the default maxMs and         *)
(* maxJitterMs it lies between 1 and maxMs; and with rng() fixed it never  *)
(* decreases as n grows.                                                   *)
(***************************************************************************)
C11_Uncapped == 2 ^ boArgs.retries + (boArgs.rng * boArgs.maxJitterMs) \div 10

C11_BackoffTime ==
  /\ [](boPc = "called" =>
          /\ boOut <= C11_Uncapped /\ boOut <= boArgs.maxMs
          /\ boOut = C11_Uncapped \/ boOut = boArgs.maxMs
          /\ (boArgs.maxMs = DEFAULT_MAX_MS
                /\ boArgs.maxJitterMs = DEFAULT_MAX_JITTER_MS)
               => (1 <= boOut /\ boOut <= boArgs.maxMs))
  /\ [][(boPc = "called" /\ boPc' = "called") => boOut' >= boOut]_vars

\* backoffTime(4, 60, 100, () => 0.5) = 60, after 51, 52, 54 and 58.
C11_Witness ==
  /\ boPc = "called"
  /\ boArgs = [retries |-> 4, maxMs |-> 60, maxJitterMs |-> 100, rng |-> 5]
  /\ boOut = 60

(***************************************************************************)
(* The inbound handshake.                                                  *)
(***************************************************************************)
\* The clients whose first frame has been handled.
Answered == {id \in 1..Len(clients) : clients[id]._receivedHeader}

ReqField(id, key) == HeaderGet(clients[id].request, key)

\* The first frame lacks topic, callerid or type, or names a topic that is
\* not advertised.
ReqUnusable(id) ==
  \/ ReqField(id, sTopic) = undefined
  \/ ReqField(id, sCallerid) = undefined
  \/ ReqField(id, sType) = undefined
  \/ ReqField(id, sTopic) # pub.name

ReqMd5Differs(id) ==
  /\ ReqField(id, sMd5sum) # undefined
  /\ ReqField(id, sMd5sum) # sStar
  /\ ReqField(id, sMd5sum) # pub.md5sum

\* What a rejection is: the socket is being closed, nothing was written,
\* no 'subscribe' was emitted and the client is no subscriber.
Rejected(id) ==
  /\ clients[id].sock # "open"
  /\ clients[id].wire = <<>>
  /\ "subscribe" \notin clients[id].events
  /\ \A k \in 1..Len(pub._subscribers) : pub._subscribers[k] # id

\* C12 as stated: a first frame that lacks topic, callerid or type, names a
\* topic that is not advertised, declares a type different from the
\* publication's data type, or declares an md5sum other than "*" that
\* differs from the publication's, is rejected.
C12_AnyOtherTypeRejected ==
  \A id \in Answered :
    (\/ ReqUnusable(id)
     \/ ReqField(id, sType) # pub.dataType
     \/ ReqMd5Differs(id))
      => Rejected(id)

\* C12, amended: a first frame that lacks topic, callerid or type, names a
\* topic that is not advertised, declares a type that is not "*" and differs
\* from the publication's data type, or declares an md5sum other than "*"
\* that differs from the publication's, is rejected: the socket is closed,
\* no response header and no latched payload is written, no 'subscribe'
\* event is emitted and the client never joins the subscriber set.
C12_Rejection ==
  \A id \in Answered :
    (\/ ReqUnusable(id)
     \/ ReqField(id, sType) # sStar /\ ReqField(id, sType) # pub.dataType
     \/ ReqMd5Differs(id))
      => Rejected(id)

\* A request with a matching type and another md5sum was refused by a
\* latching publication that holds a latched payload.
C12_Witness ==
  /\ pub._latched.set
  /\ \E id \in Answered :
       /\ ReqField(id, sType) = pub.dataType
       /\ ReqField(id, sTopic) = pub.name
       /\ ReqMd5Differs(id)
       /\ clients[id].sock = "closed"
       /\ Len(writes) = MaxWrites

\* C13: "*" is a wildcard for both type and md5sum: a request header with
\* type "*", with topic and callerid present, the topic advertised and the
\* md5sum "*" or matching, is accepted whatever the publication's data
\* type, in every source of the inbound handshake.
C13_TypeWildcard ==
  \A id \in Answered :
    (/\ ~ReqUnusable(id)
     /\ ReqField(id, sType) = sStar
     /\ ReqField(id, sMd5sum) \in {sStar, pub.md5sum})
      => /\ "subscribe" \in clients[id].events
         /\ clients[id].wire # <<>>
         /\ clients[id].wire[1].kind = "header"

\* The response header frames among what client id wrote.
HeaderWrites(id) ==
  {j \in 1..Len(clients[id].wire) : clients[id].wire[j].kind = "header"}

\* The entries of the frame that write j of client id carries, as the
\* subscriber decodes them.
WrittenHeader(id, j) ==
  LET bytes == clients[id].wire[j].bytes
  IN ParseHeader(SubSeq(bytes, 5, Len(bytes)))

KeysOf(header) == {header[k].key : k \in 1..Len(header)}

\* C14: a client that accepts a handshake writes exactly one response
\* header frame, whose key set is exactly {callerid, latching, md5sum,
\* message_definition, topic, type}: callerid is the node's name, latching
\* is "1" iff the publication is latching, and md5sum, message_definition,
\* topic and type are the publication's values.
C14_ResponseHeader ==
  \A id \in 1..Len(clients) :
    "subscribe" \in clients[id].events =>
      /\ HeaderWrites(id) = {1}
      /\ LET bytes == clients[id].wire[1].bytes
             header == WrittenHeader(id, 1)
         IN /\ getUint32(bytes, 0) = Len(bytes) - 4
            /\ Len(header) = 6
            /\ KeysOf(header) = {sCallerid, sLatching, sMd5sum,
                                 sMessageDefinition, sTopic, sType}
            /\ HeaderGet(header, sCallerid) = NodeName
            /\ HeaderGet(header, sLatching) = sOne <=> pub.latching
            /\ HeaderGet(header, sLatching) \in {sOne, sZero}
            /\ HeaderGet(header, sMd5sum) = pub.md5sum
            /\ HeaderGet(header, sMessageDefinition) = pub.messageDefinitionText
            /\ HeaderGet(header, sTopic) = pub.name
            /\ HeaderGet(header, sType) = pub.dataType

\* An accepted client of a publication that is not latching has been
\* written two published payloads after its header.
C14_Witness ==
  /\ ~pub.latching
  /\ \E id \in 1..Len(clients) :
       /\ "subscribe" \in clients[id].events
       /\ Len(clients[id].wire) = 3
       /\ clients[id].wire[1].status = "ok"

(***************************************************************************)
(* The publication's fan-out.                                              *)
(***************************************************************************)
\* What a subscriber whose handshake completed after `joined` publishes
\* and who was written `n` publishes since is to have been sent after its
\* response header: the payload of publish `joined`, if any, then those of
\* the publishes joined + 1 .. joined + n.
ExpectedPayloads(joined, n) ==
  (IF joined >= 1 THEN <<writes[joined].data>> ELSE <<>>)
    \o [k \in 1..n |-> writes[joined + k].data]

SentPayloads(id) ==
  [j \in 1..(Len(clients[id].wire) - 1) |-> clients[id].wire[j + 1].bytes]

IsSubscriber(id) == \E k \in 1..Len(pub._subscribers) : pub._subscribers[k] = id

\* C15: on a latching publication, whatever the interleaving of publishes
\* with a subscriber's handshake, the subscriber is sent, after its response
\* header, the payload of the most recent publish that preceded the
\* completion of its handshake exactly once, then the payload of each later
\* publish exactly once in publish order.
C15_LatchingReplay ==
  pub.latching =>
    \A id \in 1..Len(clients) :
      "subscribe" \in clients[id].events =>
        /\ clients[id].wire[1].kind = "header"
        /\ \E n \in 0..(Len(writes) - clients[id].joined) :
             /\ IsSubscriber(id) => n = Len(writes) - clients[id].joined
             /\ SentPayloads(id) = ExpectedPayloads(clients[id].joined, n)

\* The socket writes of client id issued by publish `call`.
WritesOf(id, call) ==
  {j \in 1..Len(clients[id].wire) : clients[id].wire[j].call = call}

\* C16: fan-out is no-fail-fast: a publish offers the same encoded payload
\* once to every subscriber attached at the time of the call and to no
\* other client; whichever of the socket writes fail, every other subscriber
\* is still written, and once they have settled the call resolves.
C16_FanOut ==
  \A call \in 1..Len(writes) :
    LET attached == {writes[call].attached[k] :
                       k \in 1..Len(writes[call].attached)}
    IN /\ \A id \in 1..Len(clients) :
            IF id \in attached
              THEN /\ Cardinality(WritesOf(id, call)) = 1
                   /\ \A j \in WritesOf(id, call) :
                        /\ clients[id].wire[j].bytes = writes[call].data
                        /\ clients[id].wire[j].kind = "publish"
              ELSE WritesOf(id, call) = {}
       /\ writes[call].state \in {"pending", "resolved"}
       /\ (/\ writes[call].state = "pending"
           /\ \A id \in attached : \A j \in WritesOf(id, call) :
                clients[id].wire[j].status # "pending")
            => ENABLED WriteResolves(call)

\* A publish to two subscribers has resolved although its write to the
\* first failed; the write to the second succeeded.
C16_Witness ==
  \E call \in 1..Len(writes) :
    /\ writes[call].attached = <<1, 2>>
    /\ writes[call].state = "resolved"
    /\ \E j \in WritesOf(1, call) : clients[1].wire[j].status = "failed"
    /\ \E j \in WritesOf(2, call) : clients[2].wire[j].status = "ok"

\* Client id has failed: a socket write of its response header, of a
\* latched payload or of a published payload failed, or the framing decoder
\* threw on its input.
ClientFailed(id) ==
  \/ \E j \in 1..Len(clients[id].wire) : clients[id].wire[j].status = "failed"
  \/ "error" \in clients[id].events

\* C17: an inbound connection is closed on failure: once a socket write of
\* the response header, of a latched payload or of a published payload has
\* failed, or the framing decoder has thrown, the connection is closed, and
\* once the socket has closed it is no subscriber of the publication.
C17_ClosedOnFailure ==
  \A id \in 1..Len(clients) :
    /\ ClientFailed(id) => clients[id].sock # "open"
    /\ clients[id].sock = "closed" => ~IsSubscriber(id)

(***************************************************************************)
(* Shutdown and teardown of connections.                                   *)
(***************************************************************************)
\* C18: after shutdown() has returned, isAdvertising(t) and
\* isSubscribedTo(t) are false for every topic t, and every subscriber
\* connection and publisher connection that was attached to a publication or
\* a subscription has been closed.
C18_Shutdown ==
  ~_running =>
    /\ \A t \in Topics : ~isAdvertising(t) /\ ~isSubscribedTo(t)
    /\ \A c \in 1..Len(links) : links[c]._shutdown
    /\ \A c \in 1..Len(inbound) : inbound[c].sock # "open"

\* C19: after shutdown() the node sends no registerSubscriber or
\* registerPublisher call, asks for no socket and opens no publisher
\* connection, starts no retry and emits no 'message' event.
C19_QuietAfterShutdown ==
  [][~_running =>
       /\ \A r \in rpcSent' \ rpcSent :
            r.method \notin {"registerSubscriber", "registerPublisher"}
       /\ \A k \in 1..Len(stp) :
            stp'[k].pc = "socketCreate" => stp[k].pc = "socketCreate"
       /\ Len(links') = Len(links)
       /\ \A c \in 1..Len(links) :
            /\ links'[c].sockets = links[c].sockets
            /\ links'[c].messages = links[c].messages
       /\ \A i \in 1..Len(loops') :
            loops'[i].pc = "sleeping" =>
              i <= Len(loops) /\ loops[i].pc = "sleeping"
    ]_vars

\* C20: a _subscribeToPublisher call whose Subscription was torn down
\* while it was suspended on requestTopic or on the creation of its socket
\* gives up: no connection is registered into that Subscription object and
\* no connect is started for it, also when the topic has been subscribed
\* again before the call resumes.
C20_GivesUp ==
  \A k \in 1..Len(stp) : stp[k].tornDown => stp[k].pc # "connected"

\* The connections the Subscription of a topic holds for a publisher URL.
HeldFor(ls, topic, url) ==
  {c \in 1..Len(ls) :
     ls[c].held /\ ls[c].sub = subscriptions[topic] /\ ls[c].pubUrl = url}

InList(url, publishers) == \E k \in 1..Len(publishers) : publishers[k] = url

\* A step that processes publisherUpdate(topic, publishers) for a subscribed
\* topic.
UpdateStep(topic, publishers) ==
  /\ subscriptions[topic] # 0
  /\ Len(nodeUpdates') = Len(nodeUpdates) + 1
  /\ nodeUpdates'[Len(nodeUpdates')].event = "publisherUpdate"
  /\ nodeUpdates'[Len(nodeUpdates')].topic = topic
  /\ nodeUpdates'[Len(nodeUpdates')].publishers = publishers

\* C21: processing publisherUpdate(topic, P) for a subscribed topic closes and
\* removes the connection of every publisher URL the subscription holds that
\* is not in P, launches _subscribeToPublisher for every URL of P that is not
\* held, and leaves the connection of every URL present in both untouched.
C21_PublisherUpdate ==
  [][ \A topic \in Topics, publishers \in UpdateLists :
        UpdateStep(topic, publishers) =>
          \A url \in PublisherUrls :
            /\ ~InList(url, publishers) =>
                 /\ HeldFor(links', topic, url) = {}
                 /\ \A c \in HeldFor(links, topic, url) : links'[c]._shutdown
            /\ (InList(url, publishers) /\ HeldFor(links, topic, url) = {}) =>
                 \E k \in (Len(stp) + 1)..Len(stp') :
                   /\ stp'[k].pubUrl = url
                   /\ stp'[k].sub = subscriptions[topic]
                   /\ stp'[k].pc = "requestTopic"
            /\ (InList(url, publishers) /\ HeldFor(links, topic, url) # {}) =>
                 \A c \in HeldFor(links, topic, url) : links'[c] = links[c]
    ]_vars

\* The registerPublisher calls sent for a Publication object.
RegisterPublisherCalls(rpcs, p) ==
  {r \in rpcs : r.method = "registerPublisher" /\ r.sub = p}

\* The Publication objects made for a topic.
PublicationsOf(topic) == {p \in 1..Len(pubs) : pubs[p].name = topic}

C24_FailedRegistration ==
  /\ [][ \A a \in 1..Len(advs) :
           (advs[a].pc = "registering" /\ advs'[a].pc = "rejected") =>
             /\ publications' = publications /\ pubs' = pubs
             /\ _running => publications[advs[a].topic] = advs[a].result
       ]_vars
  /\ [](\A a \in 1..Len(advs) :
          (_running /\ advs[a].pc = "rejected") =>
            /\ isAdvertising(advs[a].topic)
            /\ publications[advs[a].topic] = advs[a].result
            /\ Cardinality(RegisterPublisherCalls(rpcSent, advs[a].result)) = 1
            /\ \A b \in 1..Len(advs) :
                 (advs[b].topic = advs[a].topic /\ advs[b].pc = "returned") =>
                   advs[b].result = advs[a].result)

\* An advertise call was rejected, and another call of the topic has
\* returned the Publication of the rejected call.
C24_Witness ==
  /\ _running
  /\ Len(advs) >= 2
  /\ advs[1].pc = "rejected"
  /\ advs[2].topic = advs[1].topic
  /\ advs[2].pc = "returned"
  /\ advs[2].result = advs[1].result
  /\ isAdvertising(advs[1].topic)

\* A step in which subscribe() or unsubscribe() was called for a topic.
CallStep(call, topic) ==
  /\ lastReturn' # lastReturn
  /\ lastReturn'.call = call
  /\ lastReturn'.topic = topic

\* C23: subscribe is idempotent per topic.  subscribe(topic, ...) on a topic
\* of the subscription table returns the Subscription of the table, makes no
\* Subscription and starts no registerSubscriber retry loop, whatever
\* dataType, md5sum or tcpNoDelay the call passes.
C23_SubscribeIdempotent ==
  [][ \A t \in Topics :
        (CallStep("subscribe", t) /\ subscriptions[t] # 0) =>
          /\ lastReturn'.sub = subscriptions[t]
          /\ subscriptions' = subscriptions
          /\ subs' = subs
          /\ loops' = loops /\ opLog' = opLog
          /\ rpcSent' = rpcSent
    ]_vars

\* subscribe() with other options than those of the Subscription of the
\* topic has returned that Subscription.
C23_Witness ==
  /\ lastReturn.call = "subscribe"
  /\ Len(subs) = 1
  /\ lastReturn.sub = 1 /\ subscriptions[lastReturn.topic] = 1
  /\ lastReturn.options.dataType # subs[1].dataType
  /\ lastReturn.options.md5sum # subs[1].md5sum
  /\ lastReturn.options.tcpNoDelay # subs[1].tcpNoDelay
  /\ subs[1].md5sum = "*"

\* The connections a Subscription object holds or held.
ConnectionsOf(ls, i) == {c \in 1..Len(ls) : ls[c].sub = i}

\* C25: unsubscribe(topic) on a subscribed topic returns true, removes the
\* subscription from the table and closes every publisher connection attached
\* to it; from then on that Subscription has no connection that delivers an
\* event or opens a socket, whatever the outcome of unregisterSubscriber; and
\* unsubscribe on a topic that is not subscribed returns false and changes
\* nothing.
C25_Unsubscribe ==
  [][ /\ \A t \in Topics :
           (CallStep("unsubscribe", t) /\ subscriptions[t] # 0) =>
             /\ lastReturn'.ok
             /\ subscriptions'[t] = 0
             /\ \A c \in ConnectionsOf(links, subscriptions[t]) :
                  ~links'[c].held /\ links'[c]._shutdown
      /\ \A t \in Topics :
           (CallStep("unsubscribe", t) /\ subscriptions[t] = 0) =>
             /\ ~lastReturn'.ok
             /\ nodeVars' = nodeVars /\ linkVars' = linkVars
             /\ retryVars' = retryVars
      /\ \A i \in 1..Len(subs) :
           subs[i].closed =>
             /\ ConnectionsOf(links', i) = ConnectionsOf(links, i)
             /\ \A c \in ConnectionsOf(links, i) :
                  /\ links'[c].messages = links[c].messages
                  /\ links'[c].sockets = links[c].sockets
    ]_vars

\* n is k without one trailing "/", or k itself when k does not end in "/".
StrippedOnce(k, n) ==
  \/ k = Append(n, 47)
  \/ k = n /\ (k = <<>> \/ k[Len(k)] # 47)

\* A step in which the follower handled a call of the method with arguments
\* that CheckArguments accepts against `expected`.
HandledStep(method, expected) ==
  /\ Len(followerLog') = Len(followerLog) + 1
  /\ followerLog'[Len(followerLog')].method = method
  /\ Len(followerLog'[Len(followerLog')].args) = Len(expected)
  /\ \A i \in 1..Len(expected) :
       expected[i] # "*" =>
         typeof(followerLog'[Len(followerLog')].args[i]) = expected[i]

\* C28: a paramUpdate(caller, key, value) push strips one trailing "/" from
\* the key, stores the value under the normalized key in the parameter cache
\* and emits exactly one 'paramUpdate' event with the normalized key, the new
\* value, the value cached under that key before (undefined when there was
\* none) and the caller id.
C28_ParamUpdate ==
  [][ HandledStep("paramUpdate", <<"string", "string", "*">>) =>
        LET args == followerLog'[Len(followerLog')].args
        IN \E key \in DOMAIN parameters' :
             /\ StrippedOnce(args[2].s, key)
             /\ parameters'[key] = args[3]
             /\ DOMAIN parameters' = DOMAIN parameters \cup {key}
             /\ \A k \in DOMAIN parameters \ {key} :
                  parameters'[k] = parameters[k]
             /\ nodeUpdates' = Append(nodeUpdates,
                  [event |-> "paramUpdate", key |-> key, value |-> args[3],
                   prevValue |-> IF key \in DOMAIN parameters
                                   THEN parameters[key] ELSE XUndefined,
                   callerId |-> args[1].s])
    ]_vars

\* Two pushes for "/p//" were handled: the second found the value of the
\* first under "/p/".
C28_Witness ==
  /\ Len(nodeUpdates) = 2
  /\ nodeUpdates[2].event = "paramUpdate"
  /\ nodeUpdates[2].key = <<47, 112, 47>>
  /\ nodeUpdates[2].prevValue = XNumber(42)
  /\ nodeUpdates[2].value = XString(<<120>>)
  /\ followerLog[2].args[2] = XString(<<47, 112, 47, 47>>)
  /\ parameters[<<47, 112, 47>>] = XString(<<120>>)

\* A step in which the call c of the method got its reply.
ReplyStep(c, method) ==
  /\ c \in 1..Len(paramCalls)
  /\ paramCalls[c].method = method
  /\ paramCalls[c].pc = "awaiting" /\ paramCalls'[c].pc # "awaiting"

\* Whether the master answered with the success status.
Succeeded(reply) == ~reply.failed /\ reply.status = 1

\* The cache after the step is the cache before it with the value under key.
CacheSet(key, value) ==
  /\ DOMAIN parameters' = DOMAIN parameters \cup {key}
  /\ parameters'[key] = value
  /\ \A k \in DOMAIN parameters \ {key} : parameters'[k] = parameters[k]

\* C29: setParameter(k, v).  When setParam returns success the parameter
\* cache maps k to v and one 'paramUpdate' event is emitted, with the name of
\* the node as caller id and the value cached before as prevValue; when
\* setParam returns another status or fails, the call rejects, the cache does
\* not change and no event is emitted.
C29_SetParameter ==
  [][ \A c \in 1..Len(paramCalls) :
        ReplyStep(c, "setParameter") =>
          IF Succeeded(paramCalls'[c].reply)
            THEN /\ paramCalls'[c].pc = "resolved"
                 /\ CacheSet(paramCalls[c].key, paramCalls[c].value)
                 /\ nodeUpdates' = Append(nodeUpdates,
                      [event |-> "paramUpdate", key |-> paramCalls[c].key,
                       value |-> paramCalls[c].value,
                       prevValue |->
                         IF paramCalls[c].key \in DOMAIN parameters
                           THEN parameters[paramCalls[c].key] ELSE XUndefined,
                       callerId |-> NodeName])
            ELSE /\ paramCalls'[c].pc = "rejected"
                 /\ parameters' = parameters
                 /\ nodeUpdates' = nodeUpdates
    ]_vars

\* One setParameter call was rejected on the status 0, and of two that
\* succeeded the later one replaced the value of the earlier.
C29_Witness ==
  /\ Len(paramCalls) = 3
  /\ \A c \in 1..3 : paramCalls[c].method = "setParameter"
  /\ paramCalls[1].pc = "rejected"
  /\ paramCalls[1].reply = Reply(FALSE, 0, XUndefined)
  /\ paramCalls[2].pc = "resolved" /\ paramCalls[3].pc = "resolved"
  /\ Len(nodeUpdates) = 2
  /\ nodeUpdates[2].callerId = NodeName
  /\ nodeUpdates[2].prevValue = XNumber(42)
  /\ nodeUpdates[2].value = XNumber(7)
  /\ parameters[nodeUpdates[2].key] = XNumber(7)

\* C30: subscribeParam(k).  On the success status it records k in the
\* parameter cache with the value the master returned and returns that value,
\* with undefined in the place of an empty object; on another status it
\* rejects and leaves the cache unchanged.
C30_SubscribeParam ==
  [][ \A c \in 1..Len(paramCalls) :
        ReplyStep(c, "subscribeParam") =>
          LET reply == paramCalls'[c].reply
              expected == IF reply.value = XObject(<<>>)
                            THEN XUndefined ELSE reply.value
          IN IF Succeeded(reply)
               THEN /\ paramCalls'[c].pc = "resolved"
                    /\ paramCalls'[c].result = expected
                    /\ CacheSet(paramCalls[c].key, expected)
               ELSE /\ paramCalls'[c].pc = "rejected"
                    /\ parameters' = parameters
    ]_vars

\* subscribeParam returned undefined for an empty object and the object
\* itself for one that has a member.
C30_Witness ==
  /\ Len(paramCalls) = 2
  /\ \A c \in 1..2 :
       paramCalls[c].method = "subscribeParam" /\ paramCalls[c].pc = "resolved"
  /\ paramCalls[1].reply.value = XObject(<<>>)
  /\ paramCalls[1].result = XUndefined
  /\ paramCalls[1].key \in DOMAIN parameters
  /\ parameters[paramCalls[1].key] = XUndefined
  /\ paramCalls[2].key # paramCalls[1].key
  /\ paramCalls[2].result = XObject(<<XNumber(1)>>)

\* Whether a value is a list with a nested list whose first element is the
\* string "TCPROS".
HasTcprosEntry(p) ==
  /\ p.t = "array"
  /\ \E k \in DOMAIN p.items :
       /\ p.items[k].t = "array"
       /\ p.items[k].items # <<>>
       /\ Head(p.items[k].items) = XString(<<84, 67, 80, 82, 79, 83>>)

\* C26: requestTopic decides in this order: a topic that is not in the
\* publication table gives (0, reason, []); else a protocol list without a
\* nested list that starts with "TCPROS" gives (0, "unsupported protocol",
\* []); else no bound TCP listener gives (0, "cannot receive incoming
\* connections", []); else (1, "", ["TCPROS", host, port]) with the port of
\* the TCP listener and, for the host, the local address of the HTTP socket of
\* the request when it is known and the listener's address otherwise.
C26_RequestTopic ==
  [][ HandledStep("requestTopic", <<"string", "string", "*">>) =>
        LET e == followerLog'[Len(followerLog')]
            response == e.response
        IN /\ ~e.threw
           /\ IF publications[Text(e.args[2].s)] = 0
                THEN response = [code |-> 0, msg |-> NotAdvertised,
                                 value |-> XArray(<<>>)]
              ELSE IF ~HasTcprosEntry(e.args[3])
                THEN response = [code |-> 0, msg |-> Unsupported,
                                 value |-> XArray(<<>>)]
              ELSE IF ~e.env.addr.bound
                THEN response = [code |-> 0, msg |-> CannotReceive,
                                 value |-> XArray(<<>>)]
              ELSE /\ response.code = 1 /\ response.msg = <<>>
                   /\ response.value.t = "array"
                   /\ Len(response.value.items) = 3
                   /\ response.value.items[1] = XString(<<84, 67, 80, 82, 79, 83>>)
                   /\ response.value.items[2] =
                        XString(IF e.env.localAddress.known THEN sHost ELSE sAny)
                   /\ response.value.items[3] = XNumber(e.env.addr.port)
    ]_vars

\* requestTopic for the advertised topic, with "TCPROS" in the second entry
\* of the protocols and a request that came in on the IPv4-mapped address,
\* was answered with the IPv4 address and the listener's port.
C26_Witness ==
  /\ Len(followerLog) = 1
  /\ followerLog[1].method = "requestTopic"
  /\ followerLog[1].response.code = 1
  /\ Len(followerLog[1].args[3].items) = 2
  /\ followerLog[1].env.localAddress = [known |-> TRUE, address |-> sMapped \o sHost]
  /\ followerLog[1].response.value.items[2] = XString(sHost)
  /\ followerLog[1].response.value.items[3] = XNumber(9000)

\* The parameters of the follower's methods in the ROS follower API: a
\* string, a list, or any value.
Signature(method) ==
  CASE method \in {"paramUpdate", "requestTopic"} -> <<"string", "string", "*">>
    [] method = "publisherUpdate" -> <<"string", "string", "list">>
    [] OTHER -> <<"string">>

Conforms(v, kind) ==
  \/ kind = "*"
  \/ kind = "string" /\ v.t = "string"
  \/ kind = "list" /\ v.t = "array"

\* Whether a call has the number and the types of arguments of its method;
\* shutdown takes the caller id and an optional message.
WellFormed(method, args) ==
  IF method = "shutdown"
    THEN Len(args) \in {1, 2} /\ \A i \in 1..Len(args) : args[i].t = "string"
    ELSE /\ Len(args) = Len(Signature(method))
         /\ \A i \in 1..Len(args) : Conforms(args[i], Signature(method)[i])

\* C27: every method of the follower checks the number and the types of its
\* arguments before it does anything: a call with an argument too few or too
\* many or of the wrong type fails, emits no 'paramUpdate' and no
\* 'publisherUpdate' event, does not shut the node down and changes nothing
\* of the node.
C27_ValidatesFirst ==
  [][ (/\ Len(followerLog') = Len(followerLog) + 1
       /\ ~WellFormed(followerLog'[Len(followerLog')].method,
                      followerLog'[Len(followerLog')].args)) =>
        /\ followerLog'[Len(followerLog')].threw
        /\ nodeUpdates' = nodeUpdates
        /\ parameters' = parameters
        /\ nodeVars' = nodeVars
        /\ linkVars' = linkVars
        /\ retryVars' = retryVars
    ]_vars

\* A publisherUpdate whose publishers argument is a string was refused while
\* the subscription held a connection, which it still holds.
C27_Witness ==
  /\ Len(followerLog) = 1
  /\ followerLog[1].method = "publisherUpdate"
  /\ Len(followerLog[1].args) = 3
  /\ followerLog[1].args[3].t = "string"
  /\ followerLog[1].threw
  /\ _running
  /\ \E c \in 1..Len(links) : links[c].held /\ ~links[c]._shutdown
  /\ nodeUpdates = <<>>

\* C36: a subscription never holds two publisher connections with the same
\* publisher XML-RPC URL, however the answer to registerSubscriber, the
\* _subscribeToPublisher calls in flight and the publisherUpdate pushes of
\* the master interleave.
C36_OneConnectionPerUrl ==
  \A c, d \in 1..Len(links) :
    (/\ links[c].held /\ links[d].held
     /\ links[c].sub = links[d].sub
     /\ links[c].pubUrl = links[d].pubUrl) => c = d

\* C37: a publisher that a publisherUpdate removed while the requestTopic or
\* the socket creation for it was in flight is not connected afterwards: a
\* _subscribeToPublisher call of the topic's Subscription that was made
\* before the last update was processed attaches a connection only for a
\* URL of that update's list.
C37_RemovedInFlight ==
  [][ \A k \in 1..Len(stp) :
        (/\ stp[k].pc = "socketCreate" /\ stp'[k].pc = "connected"
         /\ nodeUpdates # <<>>
         /\ nodeUpdates[Len(nodeUpdates)].event = "publisherUpdate"
         /\ subscriptions[nodeUpdates[Len(nodeUpdates)].topic] = stp[k].sub
         /\ stp[k].seen < Len(nodeUpdates)) =>
          InList(stp[k].pubUrl, nodeUpdates[Len(nodeUpdates)].publishers)
    ]_vars

\* C38: every key of the parameter cache is normalized: after any sequence
\* of setParameter and subscribeParam calls with arbitrary keys, and of their
\* answers, no key of the cache ends with "/".
C38_KeysNormalized ==
  \A key \in DOMAIN parameters :
    key # <<>> => key[Len(key)] # sSlash

\* Whether one entry of the answer to subscribeParams is a success, and the
\* value the cache gets for it.
EntryOk(entry) == entry.t = "array" /\ entry.items[1] = XNumber(1)
EntryValue(entry) ==
  IF entry.items[3] = XObject(<<>>) THEN XUndefined ELSE entry.items[3]

\* C31: subscribeAllParams() brings the cache in line with the master.  When
\* the names arrive, the cache loses exactly the keys the master did not name
\* and keeps the other entries unchanged, and the call asks for exactly the
\* named parameters the cache lacks (none is subscribed again).  When the
\* answers arrive, one for each name asked for, the call resolves: every name
\* whose entry is a success has that value in the cache; for every entry that
\* is a fault or has another status one 'error' is emitted and no entry is
\* added; and the other entries of the cache are unchanged.
C31_SubscribeAllParams ==
  [][ \A c \in 1..Len(paramCalls) :
        paramCalls[c].method = "subscribeAllParams" =>
          /\ (/\ paramCalls[c].pc = "getParamNames"
              /\ paramCalls'[c].pc \in {"subscribeParams", "resolved"}) =>
               LET names == stringsOf(paramCalls'[c].reply.value)
                   keys == stringsOf(paramCalls'[c].result)
               IN /\ DOMAIN parameters' =
                       {k \in DOMAIN parameters : InList(k, names)}
                  /\ \A k \in DOMAIN parameters' : parameters'[k] = parameters[k]
                  /\ \A k \in DOMAIN parameters : ~InList(k, keys)
                  /\ \A j \in 1..Len(names) :
                       names[j] \notin DOMAIN parameters => InList(names[j], keys)
                  /\ \A j \in 1..Len(keys) : InList(keys[j], names)
                  /\ (paramCalls'[c].pc = "resolved") = (keys = <<>>)
          /\ (/\ paramCalls[c].pc = "subscribeParams"
              /\ paramCalls'[c] # paramCalls[c]) =>
               LET keys == stringsOf(paramCalls[c].result)
                   res == paramCalls'[c].reply.value.items
                   bad == {j \in 1..Len(keys) : ~EntryOk(res[j])}
               IN IF paramCalls'[c].reply.failed \/ Len(res) # Len(keys)
                    THEN /\ paramCalls'[c].pc = "rejected"
                         /\ parameters' = parameters
                         /\ nodeUpdates' = nodeUpdates
                    ELSE /\ paramCalls'[c].pc = "resolved"
                         /\ \A j \in 1..Len(keys) :
                              IF EntryOk(res[j])
                                THEN /\ keys[j] \in DOMAIN parameters'
                                     /\ parameters'[keys[j]] = EntryValue(res[j])
                                ELSE /\ keys[j] \in DOMAIN parameters' =>
                                          /\ keys[j] \in DOMAIN parameters
                                          /\ parameters'[keys[j]] =
                                               parameters[keys[j]]
                                     /\ Cardinality(
                                          {n \in Len(nodeUpdates) + 1..Len(nodeUpdates') :
                                             nodeUpdates'[n] = ParamError(keys[j])}) = 1
                         /\ Len(nodeUpdates') = Len(nodeUpdates) + Cardinality(bad)
                         /\ \A k \in DOMAIN parameters :
                              /\ k \in DOMAIN parameters'
                              /\ ~InList(k, keys) => parameters'[k] = parameters[k]
    ]_vars

\* A call of subscribeAllParams has resolved that kept the entry of "/p",
\* which the user had subscribed to, removed the entry of "/q", got a fault
\* or a failure for one of "/r" and "/s" and a value for the other.
C31_Witness ==
  \E c \in 1..Len(paramCalls) :
    /\ paramCalls[c].method = "subscribeAllParams"
    /\ paramCalls[c].pc = "resolved"
    /\ stringsOf(paramCalls[c].value) = <<ParamP, ParamR, ParamS>>
    /\ \E j, k \in 1..Len(paramCalls[c].reply.value.items) :
         /\ ~EntryOk(paramCalls[c].reply.value.items[j])
         /\ EntryOk(paramCalls[c].reply.value.items[k])
    /\ ParamP \in DOMAIN parameters /\ parameters[ParamP] = XNumber(42)
    /\ ParamQ \notin DOMAIN parameters
    /\ \E d \in 1..Len(paramCalls) :
         /\ paramCalls[d].method = "subscribeParam"
         /\ paramCalls[d].key = ParamQ /\ paramCalls[d].pc = "resolved"
    /\ \E n \in 1..Len(nodeUpdates) : nodeUpdates[n].event = "error"
    /\ Cardinality(DOMAIN parameters) = 2

\* The connection ids the node has handed out: those of the connections to
\* publishers and of the subscriber clients, closed ones included.
ConnectionIds ==
  {links[c].connectionId : c \in 1..Len(links)}
  \cup {inbound[c].connectionId : c \in 1..Len(inbound)}

\* C32: connection ids are unique within a node.  Every connection, inbound
\* or outbound, has a value the counter of the node had, below its present
\* value; no two connections that ever existed share an id, closed ones
\* included; and the counter starts at 0 and never decreases, a new
\* connection getting the value it had and raising it by one.
C32_ConnectionIds ==
  /\ [](/\ _connectionIdCounter >= 0
        /\ ConnectionIds = 0..(_connectionIdCounter - 1)
        /\ Cardinality(ConnectionIds) = Len(links) + Len(inbound))
  /\ [][/\ _connectionIdCounter' >= _connectionIdCounter
        /\ \A c \in 1..Len(links) : links'[c].connectionId = links[c].connectionId
        /\ \A c \in 1..Len(inbound) :
             inbound'[c].connectionId = inbound[c].connectionId
        /\ (Len(links') + Len(inbound') > Len(links) + Len(inbound)) =>
             /\ _connectionIdCounter' = _connectionIdCounter + 1
             /\ _connectionIdCounter \in
                  {links'[c].connectionId : c \in 1..Len(links')}
                  \cup {inbound'[c].connectionId : c \in 1..Len(inbound')}
       ]_vars

\* Three connections have their ids, a subscriber client among them, and
\* one connection to a publisher was closed before another was made.
C32_Witness ==
  /\ _connectionIdCounter = 3
  /\ Len(inbound) = 1 /\ Len(links) = 2
  /\ ~links[1].held /\ links[2].held
  /\ inbound[1].connectionId < links[2].connectionId

\* C35: a TcpConnection never has more than one connection attempt
\* outstanding: the backoff timers that are pending and the socket connect
\* that is in progress are never more than one together.
C35_OneAttempt ==
  Len(timers) + (IF sock = "connecting" THEN 1 ELSE 0) <= 1

\* The decoder of a stream threw in this step: it read a length above
\* MAX_MSG_LENGTH, which it keeps as the number of bytes it needs.
DecoderThrew(before, after) ==
  before <= MAX_MSG_LENGTH /\ after > MAX_MSG_LENGTH

\* C33: when the framing decoder throws on data a TcpConnection or a
\* TcpClient received, the data handler closes that socket and emits exactly
\* one 'error' on the connection, as its last event; it schedules no
\* reconnect itself, touches no other client, and the tables of
\* subscriptions and publications and the subscribers of the publication
\* are unchanged.  Nothing else makes a TcpClient emit 'error'.
C33_FramingError ==
  [][ /\ DecoderThrew(_bytesNeeded, _bytesNeeded') =>
           /\ sock = "open" /\ sock' = "closing"
           /\ Len(events') > Len(events)
           /\ events'[Len(events')] = Ev("error", session, 0, <<>>, <<>>)
           /\ Cardinality({n \in (Len(events) + 1)..Len(events') :
                             /\ events'[n].kind = "error"
                             /\ events'[n].frame = 0}) = 1
           /\ UNCHANGED <<retries, timers, _connected, _shutdown, connectCalls>>
           /\ UNCHANGED <<subscriptions, subs, publications, pubs, pub, clients>>
      /\ \A id \in 1..Len(clients) :
           /\ DecoderThrew(clients[id].dec.bytesNeeded,
                           clients'[id].dec.bytesNeeded) =>
                /\ clients[id].sock = "open" /\ clients'[id].sock = "closing"
                /\ clients'[id].errors = clients[id].errors + 1
                /\ "error" \in clients'[id].events
                /\ \A other \in 1..Len(clients) \ {id} :
                     clients'[other] = clients[other]
                /\ UNCHANGED <<subscriptions, subs, publications, pubs, pub>>
                /\ UNCHANGED <<sock, events, timers, retries>>
           /\ clients'[id].errors # clients[id].errors =>
                DecoderThrew(clients[id].dec.bytesNeeded,
                             clients'[id].dec.bytesNeeded)
    ]_vars

\* The decoder of the connection threw on the oversized prefix after it had
\* handled the header of the publisher, and the decoder of a client that had
\* subscribed threw: both sockets are closing and each has its 'error'.
C33_Witness ==
  /\ _bytesNeeded > MAX_MSG_LENGTH
  /\ sock = "closing" /\ ~_shutdown
  /\ Len(events) = 2
  /\ events[1].kind = "header" /\ events[2].kind = "error"
  /\ timers = <<>>
  /\ Len(clients) = 1
  /\ clients[1].dec.bytesNeeded > MAX_MSG_LENGTH
  /\ clients[1].sock = "closing"
  /\ clients[1].errors = 1
  /\ clients[1].events = {"subscribe", "error"}

\* The events emitted in this step, by their place.
NewEvents == (Len(events) + 1)..Len(events')

\* C40: a message frame that cannot be decoded makes the TcpConnection emit
\* one 'error' and nothing else.  A step that emits such an error emits
\* only events for frames, leaves the socket, _connected, the retry count,
\* the backoff timers and the connect calls as they were and keeps its
\* reader; every
\* frame the connection handled in a session has exactly one event, a
\* 'message' when its body is decodable and an 'error' when it is not, so
\* the frame after an undecodable one is decoded and emitted.
C40_DecodeError ==
  /\ [][ (\E n \in NewEvents :
            events'[n].kind = "error" /\ events'[n].frame > 0) =>
           /\ \A n \in NewEvents : events'[n].frame > 0
           /\ UNCHANGED <<sock, _connected, retries, timers, connectCalls,
                          _shutdown, session>>
           /\ _msgReader'
       ]_vars
  /\ [](/\ \A f \in 1..frame :
             Cardinality({n \in 1..Len(events) :
                            /\ events[n].session = session
                            /\ events[n].frame = f}) = 1
        /\ \A n \in 1..Len(events) :
             (events[n].frame > 0 /\ events[n].kind # "header") =>
               /\ events[n].kind = "message" <=> Len(events[n].data) >= 1
               /\ events[n].kind = "error" <=> Len(events[n].data) < 1)

\* The publisher sent a message that cannot be decoded and then one that
\* can: the connection emitted 'header', 'error' and 'message', is connected
\* on its first socket and has no reconnect pending.
C40_Witness ==
  /\ Len(events) = 3
  /\ events[1].kind = "header"
  /\ events[2].kind = "error" /\ events[2].frame = 2 /\ events[2].data = <<>>
  /\ events[3].kind = "message" /\ events[3].frame = 3 /\ events[3].data = <<7>>
  /\ sock = "open" /\ _connected /\ session = 1
  /\ timers = <<>> /\ retries = 0

\* C39: a publication's subscriber set holds only clients that completed the
\* handshake for its topic and whose socket has not closed. A client enters
\* the set only in the step that handles its 'subscribe' event and never
\* re-enters, it is out of the set once its socket has closed, and when a
\* publication is destroyed every member has been closed and removed.
\* After unadvertise(topic) the topic is not advertised and has no member,
\* and a write reaches a client only in the step of an accepted publish to
\* the publication that holds it, so a rejected publish writes to no socket.
C39_Members ==
  /\ [](\A c \in 1..Len(inbound) :
         inbound[c].held =>
           /\ inbound[c].sock # "closed"
           /\ inbound[c].pub # 0
           /\ pubs[inbound[c].pub].name = inbound[c].topic
           /\ publications[inbound[c].topic] = inbound[c].pub)
  /\ [][/\ Len(inbound') >= Len(inbound)
        /\ \A c \in 1..Len(inbound) :
             /\ inbound'[c].held => inbound[c].held
             /\ (inbound[c].held /\ publications'[inbound[c].topic] = 0) =>
                  inbound'[c].sock \in {"closing", "closed"}
             /\ inbound'[c].written # inbound[c].written =>
                  /\ inbound[c].held
                  /\ lastReturn' = [call |-> "publish",
                                    topic |-> inbound[c].topic,
                                    options |-> NoOptions,
                                    sub |-> inbound[c].pub, ok |-> TRUE]
        /\ \A c \in (Len(inbound) + 1)..Len(inbound') :
             /\ inbound'[c].held <=> publications[inbound'[c].topic] # 0
             /\ inbound'[c].written = 0
        /\ (lastReturn' # lastReturn /\ lastReturn'.call = "unadvertise") =>
             /\ publications'[lastReturn'.topic] = 0
             /\ ~ (_running' /\ publications'[lastReturn'.topic] # 0)
             /\ \A c \in 1..Len(inbound') :
                  inbound'[c].topic = lastReturn'.topic => ~ inbound'[c].held
        /\ (lastReturn' # lastReturn /\ lastReturn'.call = "publish"
              /\ publications[lastReturn'.topic] = 0) =>
             /\ ~ lastReturn'.ok
             /\ inbound' = inbound
       ]_vars

\* Two clients subscribed to the topic and were written to, the topic was
\* unadvertised, and a later publish to it was rejected.
C39_Witness ==
  /\ Len(inbound) = 2
  /\ \A c \in 1..2 : /\ inbound[c].written = 1
                     /\ ~ inbound[c].held
                     /\ inbound[c].sock \in {"closing", "closed"}
  /\ \E c \in 1..2 : inbound[c].sock = "closed"
  /\ lastReturn.call = "publish" /\ ~ lastReturn.ok
  /\ _running

\* The bytes of frames on the wire, each behind its 4-byte length prefix.
RECURSIVE wireLength(_)
wireLength(frames) ==
  IF frames = <<>> THEN 0 ELSE 4 + Len(Head(frames)) + wireLength(Tail(frames))

\* The payload bytes of the frames that lie whole within the first n bytes
\* of the wire.
RECURSIVE payloadWithin(_, _)
payloadWithin(frames, n) ==
  IF frames = <<>> \/ n < 4 + Len(Head(frames)) THEN 0
  ELSE Len(Head(frames))
         + payloadWithin(Tail(frames), n - 4 - Len(Head(frames)))

\* The frames the publisher has sent on the connection.
FramesSent ==
  (IF peerGotHeader THEN <<SerializeHeader(RoundTripHeader)>> ELSE <<>>)
    \o published

RoundTripBytes == 143

====
